---- MODULE Spec2Model ----
(***************************************************************************)
(* Q-Link end-to-end encryption service (src/src/lib/encryption.js).       *)
(*                                                                         *)
(* The module is a set of stateless functions over TweetNaCl.  Values are  *)
(* tagged tuples <<tag, ...>>: JavaScript values (strings, undefined,      *)
(* null, booleans, result objects, thrown errors) and byte arrays.         *)
(* UTF-8 and literal base64 are computed on code units and bytes.  The     *)
(* NaCl primitives are modelled by their contract: X25519 as scalar        *)
(* multiplication in a small prime-order group, XSalsa20-Poly1305 and      *)
(* Ed25519 as symbolic terms that open or verify only under the inputs     *)
(* that built them.                                                        *)
(*                                                                         *)
(* Spec runs the module's functions one call at a time, ConcSpec runs the  *)
(* calls of two callers statement group by statement group, and SmsSpec    *)
(* is the mock verification service (src/unnamed/part_004).  FacetSpec     *)
(* runs the facet functions (src/unnamed/part_006) one call at a time on   *)
(* each of the three storages, RaceSpec runs them as calls that overlap.   *)
(***************************************************************************)
EXTENDS Integers, Sequences, FiniteSets, TLC

\* ------------------------------------------------------------------ bounds
\* Number of distinct secret scalars the random source can hand to keyPair().
NumKeys == 2
\* Number of distinct 24-byte values the random source can hand to randomBytes.
NumNonces == 2
\* Number of times the clock of the verification service is seen to advance.
MaxTicks == 3
\* Number of verifyCode calls (with a wrong code, and after 3 of them with any
\* code) followed per stored code.
MaxWrongCalls == 5
\* facets: how many facets are created
MaxFacets == 2

\* ------------------------------------------------------- JavaScript values
Null == <<"null">>
Undefined == <<"undefined">>
Bool(b) == <<"bool", b>>
Str(cu) == <<"str", cu>>
Throw(e) == <<"throw", e>>
Envelope(encrypted, nonce) == <<"envelope", encrypted, nonce>>
KeyPair(publicKey, secretKey) == <<"keypair", publicKey, secretKey>>

IsThrow(v) == v[1] = "throw"
IsStr(v) == v[1] = "str"
IsEnvelope(v) == v[1] = "envelope"

\* The first thrown error among the values of a statement sequence, in order.
RECURSIVE FirstThrow(_)
FirstThrow(vs) ==
  IF vs = <<>> THEN Null
  ELSE IF IsThrow(Head(vs)) THEN Head(vs) ELSE FirstThrow(Tail(vs))

\* ------------------------------------------------------------- byte arrays
Raw(b) == <<"raw", b>>               \* literal bytes, b \in Seq(0..255)
SK(x) == <<"sk", x>>                 \* 32 random bytes read as the scalar x
PK(y) == <<"pk", y>>                 \* 32 bytes: the group element y
SharedKey(z) == <<"key", z>>         \* 32 bytes: HSalsa20 of the shared point z
OpaqueKey(p, s) == <<"okey", p, s>>  \* 32 bytes: before() of reinterpreted bytes
SignPK(seed) == <<"spk", seed>>      \* 32 bytes: Ed25519 public key of a seed
NonceBytes(r) == <<"nonce", r>>      \* 24 random bytes, draw r
Box(m, n, k) == <<"box", m, n, k>>   \* secretbox ciphertext with its tag
Flip(c) == <<"flip", c>>             \* c with at least one bit changed
Sig(m, seed) == <<"sig", m, seed>>   \* detached Ed25519 signature
Head32(v) == <<"head32", v>>         \* the first 32 bytes of a longer array
SignSK(seed) == <<"ssk", seed>>      \* 64 bytes: Ed25519 secret key (seed, public key)
Extended(k, t) == <<"cat", k, t>>    \* the bytes of k followed by the bytes t

nonceLength == 24
publicKeyLength == 32
secretKeyLength == 32
overheadLength == 16
signatureLength == 64
seedLength == 32

RECURSIVE ByteLen(_)
ByteLen(v) ==
  CASE v[1] = "raw" -> Len(v[2])
    [] v[1] = "nonce" -> nonceLength
    [] v[1] = "box" -> ByteLen(v[2]) + overheadLength
    [] v[1] = "flip" -> ByteLen(v[2])
    [] v[1] = "sig" -> signatureLength
    [] v[1] = "ssk" -> signatureLength
    [] v[1] = "cat" -> ByteLen(v[2]) + Len(v[3])
    [] OTHER -> 32

\* (no slice: the whole decoded key is taken as the seed)
Slice32_whole(v) == v

\* Uint8Array.prototype.slice(0, 32)
Slice32(v) ==
  IF ByteLen(v) <= 32 THEN v
  ELSE IF v[1] = "raw" THEN Raw(SubSeq(v[2], 1, 32))
  ELSE IF v[1] = "ssk" THEN v[2]
  ELSE IF v[1] = "cat" /\ ByteLen(v[2]) = 32 THEN v[2]
  ELSE Head32(v)

\* ---------------------------------------------------- tweetnacl-util: UTF-8
IsHighSurrogate(c) == c >= 55296 /\ c <= 56319
IsLowSurrogate(c) == c >= 56320 /\ c <= 57343

\* encodeURIComponent throws URIError on an unpaired surrogate.
RECURSIVE WellFormedUTF16(_)
WellFormedUTF16(cu) ==
  IF cu = <<>> THEN TRUE
  ELSE IF IsHighSurrogate(cu[1])
       THEN Len(cu) >= 2 /\ IsLowSurrogate(cu[2])
            /\ WellFormedUTF16(SubSeq(cu, 3, Len(cu)))
  ELSE IF IsLowSurrogate(cu[1]) THEN FALSE
  ELSE WellFormedUTF16(Tail(cu))

Utf8OfCodePoint(cp) ==
  IF cp < 128 THEN <<cp>>
  ELSE IF cp < 2048 THEN <<192 + (cp \div 64), 128 + (cp % 64)>>
  ELSE IF cp < 65536
       THEN <<224 + (cp \div 4096), 128 + ((cp \div 64) % 64), 128 + (cp % 64)>>
  ELSE <<240 + (cp \div 262144), 128 + ((cp \div 4096) % 64),
         128 + ((cp \div 64) % 64), 128 + (cp % 64)>>

RECURSIVE Utf8Bytes(_)
Utf8Bytes(cu) ==
  IF cu = <<>> THEN <<>>
  ELSE IF IsHighSurrogate(cu[1])
       THEN Utf8OfCodePoint(65536 + (cu[1] - 55296) * 1024 + (cu[2] - 56320))
            \o Utf8Bytes(SubSeq(cu, 3, Len(cu)))
  ELSE Utf8OfCodePoint(cu[1]) \o Utf8Bytes(Tail(cu))

\* util.decodeUTF8(s): string -> Uint8Array
decodeUTF8(s) ==
  IF ~IsStr(s) THEN Throw("TypeError: expected string")
  ELSE IF ~WellFormedUTF16(s[2]) THEN Throw("URIError: URI malformed")
  ELSE Raw(Utf8Bytes(s[2]))

IsCont(b) == b >= 128 /\ b <= 191

\* Length of the UTF-8 sequence starting b, 0 when b starts no valid sequence
\* (decodeURIComponent rejects overlong forms, surrogates and > U+10FFFF).
Utf8SeqLen(b) ==
  IF b[1] < 128 THEN 1
  ELSE IF b[1] >= 194 /\ b[1] <= 223 /\ Len(b) >= 2 /\ IsCont(b[2]) THEN 2
  ELSE IF b[1] >= 224 /\ b[1] <= 239 /\ Len(b) >= 3 /\ IsCont(b[2]) /\ IsCont(b[3])
          /\ (b[1] = 224 => b[2] >= 160) /\ (b[1] = 237 => b[2] <= 159) THEN 3
  ELSE IF b[1] >= 240 /\ b[1] <= 244 /\ Len(b) >= 4
          /\ IsCont(b[2]) /\ IsCont(b[3]) /\ IsCont(b[4])
          /\ (b[1] = 240 => b[2] >= 144) /\ (b[1] = 244 => b[2] <= 143) THEN 4
  ELSE 0

RECURSIVE ValidUtf8(_)
ValidUtf8(b) ==
  IF b = <<>> THEN TRUE
  ELSE LET n == Utf8SeqLen(b)
       IN n > 0 /\ ValidUtf8(SubSeq(b, n + 1, Len(b)))

CodePointOf(b, n) ==
  CASE n = 1 -> b[1]
    [] n = 2 -> (b[1] - 192) * 64 + (b[2] - 128)
    [] n = 3 -> (b[1] - 224) * 4096 + (b[2] - 128) * 64 + (b[3] - 128)
    [] n = 4 -> (b[1] - 240) * 262144 + (b[2] - 128) * 4096
                + (b[3] - 128) * 64 + (b[4] - 128)

Utf16OfCodePoint(cp) ==
  IF cp < 65536 THEN <<cp>>
  ELSE <<55296 + ((cp - 65536) \div 1024), 56320 + ((cp - 65536) % 1024)>>

RECURSIVE Utf16Units(_)
Utf16Units(b) ==
  IF b = <<>> THEN <<>>
  ELSE LET n == Utf8SeqLen(b)
       IN Utf16OfCodePoint(CodePointOf(b, n)) \o Utf16Units(SubSeq(b, n + 1, Len(b)))

\* util.encodeUTF8(arr): Uint8Array -> string
encodeUTF8(arr) ==
  IF arr[1] # "raw" THEN Throw("URIError: URI malformed")
  ELSE IF ~ValidUtf8(arr[2]) THEN Throw("URIError: URI malformed")
  ELSE Str(Utf16Units(arr[2]))

\* --------------------------------------------------- tweetnacl-util: base64
\* A base64 text of a byte array: canonical (alt = 0), or the same text with
\* the unused low bits of its last character set (alt = 1), which decodes to
\* the same bytes; the latter exists only when the length is no multiple of 3.
B64(v, alt) == <<"b64", v, alt>>

encodeBase64(arr) == B64(arr, 0)

B64Char(c) ==
  (c >= 65 /\ c <= 90) \/ (c >= 97 /\ c <= 122) \/ (c >= 48 /\ c <= 57)
  \/ c = 43 \/ c = 47

B64Val(c) ==
  IF c >= 65 /\ c <= 90 THEN c - 65
  ELSE IF c >= 97 /\ c <= 122 THEN c - 71
  ELSE IF c >= 48 /\ c <= 57 THEN c + 4
  ELSE IF c = 43 THEN 62 ELSE 63

\* validateBase64: /^(?:[A-Za-z0-9+\/]{4})*(?:..==|...=)?$/
validateBase64(cu) ==
  /\ Len(cu) % 4 = 0
  /\ \A i \in 1..Len(cu) :
       \/ B64Char(cu[i])
       \/ cu[i] = 61 /\ i = Len(cu)
       \/ cu[i] = 61 /\ i = Len(cu) - 1 /\ cu[Len(cu)] = 61

RECURSIVE B64Groups(_)
B64Groups(cu) ==
  IF cu = <<>> THEN <<>>
  ELSE LET a == B64Val(cu[1])
           b == B64Val(cu[2])
           c == B64Val(cu[3])
           d == B64Val(cu[4])
           rest == B64Groups(SubSeq(cu, 5, Len(cu)))
       IN IF cu[3] = 61 THEN <<a * 4 + (b \div 16)>>
          ELSE IF cu[4] = 61
               THEN <<a * 4 + (b \div 16), (b % 16) * 16 + (c \div 4)>>
          ELSE <<a * 4 + (b \div 16), (b % 16) * 16 + (c \div 4), (c % 4) * 64 + d>>
               \o rest

\* util.decodeBase64(s): validateBase64(s), then atob / Buffer.from
decodeBase64(s) ==
  IF s[1] = "b64" THEN s[2]
  ELSE IF IsStr(s) /\ validateBase64(s[2]) THEN Raw(B64Groups(s[2]))
  ELSE Throw("TypeError: invalid encoding")

\* -------------------------------------------------------------------- state
VARIABLES
  prng,   \* whether TweetNaCl found a platform random source when it was loaded
  keyring,\* the key pairs generateKeyPair has returned
  env,    \* the envelope most recently returned by an encryption call, or Null
  last,   \* the call that has just returned, [op, args, rnd, result], or Idle
  tasks,  \* concurrent callers: each caller's call in progress and its position
  frames, \* concurrent callers: the local constants of each call in progress
  pendingVerifications, \* verification service: the Map phone number -> entry
  now,    \* verification service: Date.now()
  reply,  \* verification service: the call whose promise has just resolved
  issued, \* per phone number, the entry as sendVerificationCode stored it and
          \* the clock at that moment, until its code is verified
  wrongCalls, \* per phone number, the verifyCode calls with another code since
              \* and, once there are 3 of them, every verifyCode call
  storageEnv, \* facets: which storage getStorage finds
  storage,    \* facets: the item kept under 'qlink_facets', or Null
  facetReply, \* facets: the call whose promise has just resolved
  ids,        \* facets: how many ids generateId has produced
  made,       \* facets: the ids of the facets createFacet has returned and
              \* no deleteFacet has since reported deleted
  jobs        \* facets: the calls in progress of the overlapping callers

\* What the concurrent callers hold.
callers == <<tasks, frames>>
\* The verification service and its callers' view of it.
sms == <<pendingVerifications, now, reply, issued, wrongCalls>>

\* The facet store and its callers' view of it.
facetVars == <<storageEnv, storage, facetReply, ids, made, jobs>>

vars == <<prng, keyring, env, last, callers, sms, facetVars>>

\* ------------------------------------------------------ TweetNaCl primitives
\* X25519 is modelled as exponentiation in the subgroup of order 23 of Z_47^*,
\* generated by 2; the secret scalars are chosen so that distinct unordered
\* pairs of key pairs have distinct shared points, as they have for X25519.
GroupPrime == 47
GroupGen == 2
ScalarTable == <<2, 3, 5, 7, 11>>

RECURSIVE PowMod(_, _)
PowMod(b, x) == IF x = 0 THEN 1 ELSE (b * PowMod(b, x - 1)) % GroupPrime

\* (a random source that hands out zero bytes when the platform has none)
randomBytes_zero(e) == IF prng THEN e ELSE SK(0)

\* nacl.randomBytes(n): the draw e of the platform source, or 'no PRNG'
randomBytes(e) == IF prng THEN e ELSE Throw("Error: no PRNG")

\* nacl.scalarMult.base
scalarMultBase(sk) == PK(PowMod(GroupGen, sk[2]))

\* nacl.box.keyPair()
nacl_box_keyPair(e) ==
  LET sk == randomBytes(e)
  IN IF IsThrow(sk) THEN sk ELSE KeyPair(scalarMultBase(sk), sk)

\* nacl.box.before(publicKey, secretKey)
\* (a key agreement that ignores the secret key)
nacl_box_before_publicOnly(publicKey, secretKey) ==
  IF ByteLen(publicKey) # publicKeyLength THEN Throw("Error: bad public key size")
  ELSE IF ByteLen(secretKey) # secretKeyLength THEN Throw("Error: bad secret key size")
  ELSE OpaqueKey(publicKey, publicKey)

nacl_box_before(publicKey, secretKey) ==
  IF ByteLen(publicKey) # publicKeyLength THEN Throw("Error: bad public key size")
  ELSE IF ByteLen(secretKey) # secretKeyLength THEN Throw("Error: bad secret key size")
  ELSE IF publicKey[1] = "pk" /\ secretKey[1] = "sk"
       THEN SharedKey(PowMod(publicKey[2], secretKey[2]))
  ELSE OpaqueKey(publicKey, secretKey)

\* nacl.secretbox(msg, nonce, key) = nacl.box.after
nacl_secretbox(msg, nonce, key) ==
  IF ByteLen(key) # 32 THEN Throw("Error: bad key size")
  ELSE IF ByteLen(nonce) # nonceLength THEN Throw("Error: bad nonce size")
  ELSE Box(msg, nonce, key)

\* nacl.secretbox.open(box, nonce, key) = nacl.box.open.after
nacl_secretbox_open_noauth(box, nonce, key) ==
  IF ByteLen(key) # 32 THEN Throw("Error: bad key size")
  ELSE IF ByteLen(nonce) # nonceLength THEN Throw("Error: bad nonce size")
  ELSE IF ByteLen(box) < overheadLength THEN Null
  ELSE IF box[1] = "box" /\ box[3] = nonce /\ box[4] = key THEN box[2]
  ELSE IF box[1] = "flip" /\ box[2][1] = "box" /\ box[2][3] = nonce /\ box[2][4] = key
       THEN box[2][2]
  ELSE Null

\* (a box that opens under any nonce)
nacl_secretbox_open_anyNonce(box, nonce, key) ==
  IF ByteLen(key) # 32 THEN Throw("Error: bad key size")
  ELSE IF ByteLen(nonce) # nonceLength THEN Throw("Error: bad nonce size")
  ELSE IF ByteLen(box) < overheadLength THEN Null
  ELSE IF box[1] = "box" /\ box[4] = key THEN box[2]
  ELSE Null

nacl_secretbox_open(box, nonce, key) ==
  IF ByteLen(key) # 32 THEN Throw("Error: bad key size")
  ELSE IF ByteLen(nonce) # nonceLength THEN Throw("Error: bad nonce size")
  ELSE IF ByteLen(box) < overheadLength THEN Null
  ELSE IF box[1] = "box" /\ box[3] = nonce /\ box[4] = key THEN box[2]
  ELSE Null

\* (a box whose key is not the one nacl.box.before hands out)
nacl_box_ownKey(msg, nonce, publicKey, secretKey) ==
  LET k == nacl_box_before(publicKey, secretKey)
  IN IF IsThrow(k) THEN k ELSE nacl_secretbox(msg, nonce, OpaqueKey(publicKey, secretKey))

\* nacl.box(msg, nonce, publicKey, secretKey)
nacl_box(msg, nonce, publicKey, secretKey) ==
  LET k == nacl_box_before(publicKey, secretKey)
  IN IF IsThrow(k) THEN k ELSE nacl_secretbox(msg, nonce, k)

\* nacl.box.open(box, nonce, publicKey, secretKey)
nacl_box_open(box, nonce, publicKey, secretKey) ==
  LET k == nacl_box_before(publicKey, secretKey)
  IN IF IsThrow(k) THEN k ELSE nacl_secretbox_open(box, nonce, k)

\* nacl.sign.keyPair.fromSeed(seed)
nacl_sign_keyPair_fromSeed(seed) ==
  IF ByteLen(seed) # seedLength THEN Throw("Error: bad seed size")
  ELSE KeyPair(SignPK(seed), SignSK(seed))

\* nacl.sign.detached(msg, secretKey)
nacl_sign_detached(msg, secretKey) ==
  IF ByteLen(secretKey) # signatureLength THEN Throw("Error: bad secret key size")
  ELSE Sig(msg, secretKey[2])

\* nacl.sign.detached.verify(msg, sig, publicKey)
nacl_sign_detached_verify(msg, sig, publicKey) ==
  IF ByteLen(sig) # signatureLength THEN Throw("Error: bad signature size")
  ELSE IF ByteLen(publicKey) # publicKeyLength THEN Throw("Error: bad public key size")
  ELSE Bool(sig[1] = "sig" /\ sig[2] = msg /\ publicKey = SignPK(sig[3]))

\* ------------------------------------------------------------ encryption.js
\* Each function takes, besides its arguments, the draw e the random source
\* returns if the call asks for random bytes.  A try block yields Null (or
\* false) when any statement in it throws; outside one the error propagates.

\* generateKeyPair()
generateKeyPair(e) ==
  LET keyPair == nacl_box_keyPair(e)
  IN IF IsThrow(keyPair) THEN keyPair
     ELSE KeyPair(encodeBase64(keyPair[2]), encodeBase64(keyPair[3]))

\* (a nonce that is not drawn per call)
generateNonce_constant(e) == IF prng THEN NonceBytes(0) ELSE Throw("Error: no PRNG")

\* (a nonce kept at module level once an envelope has been produced)
generateNonce_remembered(e) ==
  IF ~prng THEN Throw("Error: no PRNG")
  ELSE IF IsEnvelope(env) THEN decodeBase64(env[3]) ELSE e

\* generateNonce()
generateNonce(e) == randomBytes(e)

\* (encrypt without its try block)
encrypt_noTry(message, recipientPublicKey, senderSecretKey, e) ==
  LET messageUint8 == decodeUTF8(message)
      nonce == generateNonce(e)
      recipientPubKeyUint8 == decodeBase64(recipientPublicKey)
      senderSecKeyUint8 == decodeBase64(senderSecretKey)
      thrown == FirstThrow(<<messageUint8, nonce, recipientPubKeyUint8, senderSecKeyUint8>>)
  IN IF IsThrow(thrown) THEN thrown
     ELSE LET encrypted == nacl_box(messageUint8, nonce,
                                    recipientPubKeyUint8, senderSecKeyUint8)
          IN IF IsThrow(encrypted) THEN encrypted
             ELSE Envelope(encodeBase64(encrypted), encodeBase64(nonce))

\* encrypt(message, recipientPublicKey, senderSecretKey)
encrypt(message, recipientPublicKey, senderSecretKey, e) ==
  LET messageUint8 == decodeUTF8(message)
      nonce == generateNonce(e)
      recipientPubKeyUint8 == decodeBase64(recipientPublicKey)
      senderSecKeyUint8 == decodeBase64(senderSecretKey)
      encrypted == nacl_box(messageUint8, nonce, recipientPubKeyUint8, senderSecKeyUint8)
  IN IF \/ IsThrow(messageUint8) \/ IsThrow(nonce)
        \/ IsThrow(recipientPubKeyUint8) \/ IsThrow(senderSecKeyUint8)
        \/ IsThrow(encrypted)
     THEN Null
     ELSE IF encrypted = Null THEN Null
     ELSE Envelope(encodeBase64(encrypted), encodeBase64(nonce))

\* (decryptWithSharedSecret that opens the box under whatever key it is given)
decryptWithSharedSecret_anyKey(encryptedMessage, nonce, sharedSecret) ==
  LET encryptedUint8 == decodeBase64(encryptedMessage)
      nonceUint8 == decodeBase64(nonce)
      sharedSecretUint8 == decodeBase64(sharedSecret)
  IN IF IsThrow(encryptedUint8) \/ IsThrow(nonceUint8) \/ IsThrow(sharedSecretUint8)
     THEN Null
     ELSE IF encryptedUint8[1] # "box" THEN Null
     ELSE IF IsThrow(encodeUTF8(encryptedUint8[2])) THEN Null
     ELSE encodeUTF8(encryptedUint8[2])

\* (decrypt that reports a caught error by another value than a box that does
\* not open)
decrypt_distinctFailures(encryptedMessage, nonce, senderPublicKey, recipientSecretKey) ==
  LET encryptedUint8 == decodeBase64(encryptedMessage)
      nonceUint8 == decodeBase64(nonce)
      senderPubKeyUint8 == decodeBase64(senderPublicKey)
      recipientSecKeyUint8 == decodeBase64(recipientSecretKey)
      decrypted == nacl_box_open(encryptedUint8, nonceUint8,
                                 senderPubKeyUint8, recipientSecKeyUint8)
  IN IF \/ IsThrow(encryptedUint8) \/ IsThrow(nonceUint8)
        \/ IsThrow(senderPubKeyUint8) \/ IsThrow(recipientSecKeyUint8)
        \/ IsThrow(decrypted)
     THEN Undefined
     ELSE IF decrypted = Null THEN Null
     ELSE IF IsThrow(encodeUTF8(decrypted)) THEN Undefined
     ELSE encodeUTF8(decrypted)

\* (decrypt that takes an empty plaintext for a box that did not open)
decrypt_emptyIsFailure(encryptedMessage, nonce, senderPublicKey, recipientSecretKey) ==
  LET encryptedUint8 == decodeBase64(encryptedMessage)
      nonceUint8 == decodeBase64(nonce)
      senderPubKeyUint8 == decodeBase64(senderPublicKey)
      recipientSecKeyUint8 == decodeBase64(recipientSecretKey)
      decrypted == nacl_box_open(encryptedUint8, nonceUint8,
                                 senderPubKeyUint8, recipientSecKeyUint8)
  IN IF \/ IsThrow(encryptedUint8) \/ IsThrow(nonceUint8)
        \/ IsThrow(senderPubKeyUint8) \/ IsThrow(recipientSecKeyUint8)
        \/ IsThrow(decrypted)
     THEN Null
     ELSE IF decrypted = Null \/ decrypted = Raw(<<>>) THEN Null
     ELSE IF IsThrow(encodeUTF8(decrypted)) THEN Null
     ELSE encodeUTF8(decrypted)

\* (decrypt that turns the bytes into a string one code unit per byte)
decrypt_latin1(encryptedMessage, nonce, senderPublicKey, recipientSecretKey) ==
  LET encryptedUint8 == decodeBase64(encryptedMessage)
      nonceUint8 == decodeBase64(nonce)
      senderPubKeyUint8 == decodeBase64(senderPublicKey)
      recipientSecKeyUint8 == decodeBase64(recipientSecretKey)
      decrypted == nacl_box_open(encryptedUint8, nonceUint8,
                                 senderPubKeyUint8, recipientSecKeyUint8)
  IN IF \/ IsThrow(encryptedUint8) \/ IsThrow(nonceUint8)
        \/ IsThrow(senderPubKeyUint8) \/ IsThrow(recipientSecKeyUint8)
        \/ IsThrow(decrypted)
     THEN Null
     ELSE IF decrypted = Null THEN Null
     ELSE Str(decrypted[2])

\* (decrypt that deciphers without checking the authentication tag)
decrypt_unauthenticated(encryptedMessage, nonce, senderPublicKey, recipientSecretKey) ==
  LET encryptedUint8 == decodeBase64(encryptedMessage)
      nonceUint8 == decodeBase64(nonce)
      senderPubKeyUint8 == decodeBase64(senderPublicKey)
      recipientSecKeyUint8 == decodeBase64(recipientSecretKey)
      thrown == FirstThrow(<<encryptedUint8, nonceUint8, senderPubKeyUint8,
                             recipientSecKeyUint8>>)
      k == nacl_box_before(senderPubKeyUint8, recipientSecKeyUint8)
      decrypted == nacl_secretbox_open_noauth(encryptedUint8, nonceUint8, k)
  IN IF IsThrow(thrown) \/ IsThrow(k) \/ IsThrow(decrypted) THEN Null
     ELSE IF decrypted = Null THEN Null
     ELSE IF IsThrow(encodeUTF8(decrypted)) THEN Null
     ELSE encodeUTF8(decrypted)

\* decrypt(encryptedMessage, nonce, senderPublicKey, recipientSecretKey)
decrypt(encryptedMessage, nonce, senderPublicKey, recipientSecretKey) ==
  LET encryptedUint8 == decodeBase64(encryptedMessage)
      nonceUint8 == decodeBase64(nonce)
      senderPubKeyUint8 == decodeBase64(senderPublicKey)
      recipientSecKeyUint8 == decodeBase64(recipientSecretKey)
      decrypted == nacl_box_open(encryptedUint8, nonceUint8,
                                 senderPubKeyUint8, recipientSecKeyUint8)
  IN IF \/ IsThrow(encryptedUint8) \/ IsThrow(nonceUint8)
        \/ IsThrow(senderPubKeyUint8) \/ IsThrow(recipientSecKeyUint8)
        \/ IsThrow(decrypted)
     THEN Null
     ELSE IF decrypted = Null THEN Null
     ELSE IF IsThrow(encodeUTF8(decrypted)) THEN Null
     ELSE encodeUTF8(decrypted)

\* (deriveSharedSecret passing its two keys to nacl.box.before in the other order)
deriveSharedSecret_swapped(theirPublicKey, mySecretKey) ==
  LET theirPubKeyUint8 == decodeBase64(theirPublicKey)
      mySecKeyUint8 == decodeBase64(mySecretKey)
  IN IF IsThrow(theirPubKeyUint8) THEN theirPubKeyUint8
     ELSE IF IsThrow(mySecKeyUint8) THEN mySecKeyUint8
     ELSE LET sharedSecret == nacl_box_before(mySecKeyUint8, theirPubKeyUint8)
          IN IF IsThrow(sharedSecret) THEN sharedSecret
             ELSE encodeBase64(sharedSecret)

\* deriveSharedSecret(theirPublicKey, mySecretKey): no try block
deriveSharedSecret(theirPublicKey, mySecretKey) ==
  LET theirPubKeyUint8 == decodeBase64(theirPublicKey)
      mySecKeyUint8 == decodeBase64(mySecretKey)
  IN IF IsThrow(theirPubKeyUint8) THEN theirPubKeyUint8
     ELSE IF IsThrow(mySecKeyUint8) THEN mySecKeyUint8
     ELSE LET sharedSecret == nacl_box_before(theirPubKeyUint8, mySecKeyUint8)
          IN IF IsThrow(sharedSecret) THEN sharedSecret
             ELSE encodeBase64(sharedSecret)

\* encryptWithSharedSecret(message, sharedSecret)
encryptWithSharedSecret(message, sharedSecret, e) ==
  LET messageUint8 == decodeUTF8(message)
      nonce == generateNonce(e)
      sharedSecretUint8 == decodeBase64(sharedSecret)
      encrypted == nacl_secretbox(messageUint8, nonce, sharedSecretUint8)
  IN IF \/ IsThrow(messageUint8) \/ IsThrow(nonce) \/ IsThrow(sharedSecretUint8)
        \/ IsThrow(encrypted)
     THEN Null
     ELSE IF encrypted = Null THEN Null
     ELSE Envelope(encodeBase64(encrypted), encodeBase64(nonce))

\* decryptWithSharedSecret(encryptedMessage, nonce, sharedSecret)
decryptWithSharedSecret(encryptedMessage, nonce, sharedSecret) ==
  LET encryptedUint8 == decodeBase64(encryptedMessage)
      nonceUint8 == decodeBase64(nonce)
      sharedSecretUint8 == decodeBase64(sharedSecret)
      decrypted == nacl_secretbox_open(encryptedUint8, nonceUint8, sharedSecretUint8)
  IN IF \/ IsThrow(encryptedUint8) \/ IsThrow(nonceUint8) \/ IsThrow(sharedSecretUint8)
        \/ IsThrow(decrypted)
     THEN Null
     ELSE IF decrypted = Null THEN Null
     ELSE IF IsThrow(encodeUTF8(decrypted)) THEN Null
     ELSE encodeUTF8(decrypted)

\* sign(message, secretKey): no try block
sign(message, secretKey) ==
  LET decoded == decodeBase64(secretKey)
  IN IF IsThrow(decoded) THEN decoded
     ELSE LET signingKeyPair == nacl_sign_keyPair_fromSeed(Slice32(decoded))
              messageUint8 == decodeUTF8(message)
          IN IF IsThrow(signingKeyPair) THEN signingKeyPair
             ELSE IF IsThrow(messageUint8) THEN messageUint8
             ELSE LET signature == nacl_sign_detached(messageUint8, signingKeyPair[3])
                  IN IF IsThrow(signature) THEN signature
                     ELSE encodeBase64(signature)

\* (verify without its try block)
verify_noTry(message, signature, publicKey) ==
  LET messageUint8 == decodeUTF8(message)
      signatureUint8 == decodeBase64(signature)
      publicKeyUint8 == decodeBase64(publicKey)
      thrown == FirstThrow(<<messageUint8, signatureUint8, publicKeyUint8>>)
  IN IF IsThrow(thrown) THEN thrown
     ELSE nacl_sign_detached_verify(messageUint8, signatureUint8, publicKeyUint8)

\* (verify that checks the signature against the key but not against the message)
verify_anyMessage(message, signature, publicKey) ==
  LET messageUint8 == decodeUTF8(message)
      signatureUint8 == decodeBase64(signature)
      publicKeyUint8 == decodeBase64(publicKey)
      thrown == FirstThrow(<<messageUint8, signatureUint8, publicKeyUint8>>)
  IN IF IsThrow(thrown) THEN Bool(FALSE)
     ELSE IF ByteLen(signatureUint8) # signatureLength THEN Bool(FALSE)
     ELSE IF ByteLen(publicKeyUint8) # publicKeyLength THEN Bool(FALSE)
     ELSE Bool(signatureUint8[1] = "sig" /\ publicKeyUint8 = SignPK(signatureUint8[3]))

\* verify(message, signature, publicKey)
verify(message, signature, publicKey) ==
  LET messageUint8 == decodeUTF8(message)
      signatureUint8 == decodeBase64(signature)
      publicKeyUint8 == decodeBase64(publicKey)
      ok == nacl_sign_detached_verify(messageUint8, signatureUint8, publicKeyUint8)
  IN IF \/ IsThrow(messageUint8) \/ IsThrow(signatureUint8) \/ IsThrow(publicKeyUint8)
        \/ IsThrow(ok)
     THEN Bool(FALSE)
     ELSE ok

\* ------------------------------------------------------- the callers' inputs
SecretScalars == {ScalarTable[i] : i \in 1..NumKeys}
\* What the random source can return for 32 and for 24 bytes.
KeyDraws == {SK(x) : x \in SecretScalars}
NonceDraws == {NonceBytes(r) : r \in 1..NumNonces}

\* "", "a", "e-acute", an emoji (a surrogate pair), an unpaired high surrogate.
Strings == {Str(<<>>), Str(<<97>>), Str(<<233>>), Str(<<55357, 56832>>), Str(<<55357>>)}
Texts == {s \in Strings : WellFormedUTF16(s[2])}
MessageArgs == Strings \cup {Undefined}

\* "%": no base64; three bytes: no key, no nonce, shorter than a tag.
NotBase64 == Str(<<37>>)
ThreeBytes == B64(Raw(<<1, 2, 3>>), 0)
Junk == {NotBase64, ThreeBytes, Undefined}

\* The non-canonical base64 text of the same bytes, where there is one.
Alt(t) == IF t[1] = "b64" /\ ByteLen(t[2]) % 3 # 0 THEN B64(t[2], 1) ELSE t

\* Keys come from the key pairs generateKeyPair has returned.
PubArgs == {kp[2] : kp \in keyring} \cup {Alt(kp[2]) : kp \in keyring} \cup Junk
SecArgs == {kp[3] : kp \in keyring} \cup Junk
\* The shared secrets of the generated key pairs.
DerivedSecrets == {deriveSharedSecret(a[2], b[3]) : a \in keyring, b \in keyring}
SharedArgs == DerivedSecrets \cup {Alt(t) : t \in DerivedSecrets} \cup Junk
NonceArgs == {encodeBase64(n) : n \in NonceDraws} \cup {NotBase64, ThreeBytes}
\* The signing public key of a box secret key, as nacl.sign.keyPair.fromSeed
\* gives it (the module itself never returns it).
SigningPublicKey(secretKey) ==
  encodeBase64(nacl_sign_keyPair_fromSeed(Slice32(decodeBase64(secretKey)))[2])
\* Longer keys that begin with a generated secret key: the key with a tail, and
\* the 64-byte Ed25519 secret key made from it as a seed.
KeyTails == {<<1>>, <<2, 3>>}
LongKeys(secretKey) ==
  {encodeBase64(Extended(decodeBase64(secretKey), t)) : t \in KeyTails}
  \cup {encodeBase64(SignSK(decodeBase64(secretKey)))}
SignKeyArgs == SecArgs \cup UNION {LongKeys(kp[3]) : kp \in keyring}
SigArgs == {sign(m, kp[3]) : m \in Texts, kp \in keyring} \cup Junk
VerifyKeyArgs == PubArgs \cup {SigningPublicKey(kp[3]) : kp \in keyring}
\* A box a peer made with TweetNaCl itself over bytes that are no UTF-8.
ForeignBox(n, k) == encodeBase64(Box(Raw(<<255>>), n, k))
\* What a caller holding the envelope v can pass as ciphertext: it, its other
\* base64 text, a tampered copy, a foreign box, junk.
CiphertextArgs(v) ==
  IF IsEnvelope(v)
  THEN {v[2], Alt(v[2]), encodeBase64(Flip(decodeBase64(v[2]))),
        ForeignBox(decodeBase64(v[3]), decodeBase64(v[2])[4])} \cup {NotBase64, ThreeBytes}
  ELSE {NotBase64, ThreeBytes}

\* ------------------------------------------------------------------ actions
Call(op, args, e, result) == [op |-> op, args |-> args, rnd |-> e, result |-> result]
NoDraw == <<"none">>
\* No call is in progress: the module holds nothing between calls.
Idle == Call("idle", <<>>, NoDraw, Undefined)

\* The callers that use the module concurrently, and a caller with no call in
\* progress.
Callers == {"c1", "c2"}
Resting == [pc |-> "idle", call |-> Idle, result |-> Undefined]
NoCallers ==
  /\ tasks = [t \in Callers |-> Resting]
  /\ frames = [t \in Callers |-> <<>>]

\* ------------------------------------------- verification service (mock SMS)
\* src/unnamed/part_004.  Phone numbers and codes are strings of code units; a
\* Map entry is <<"entry", code, expiresAt, attempts>>, a missing one undefined;
\* a resolved promise is <<"result", success or verified, error>>.
Entry(code, expiresAt, attempts) == <<"entry", code, expiresAt, attempts>>
Result(flag, error) == <<"result", flag, error>>
Error(message) == <<"error", message>>
\* (history) a stored code that a verifyCode call has accepted
Used(code) == <<"used", code>>

\* 5 * 60 * 1000 ms, and the attempts allowed
expiryMs == 300000
maxAttempts == 3
\* The clock is observed every 2.5 minutes.
TickMs == 150000

IsDigit(c) == c >= 48 /\ c <= 57
\* !phoneNumber || !/^\+[1-9]\d{1,14}$/.test(phoneNumber)
ValidPhone(phoneNumber) ==
  /\ IsStr(phoneNumber)
  /\ LET cu == phoneNumber[2]
     IN /\ Len(cu) >= 3 /\ Len(cu) <= 16
        /\ cu[1] = 43
        /\ cu[2] >= 49 /\ cu[2] <= 57
        /\ \A i \in 3..Len(cu) : IsDigit(cu[i])

\* Number.prototype.toString() of a natural number
RECURSIVE DecimalDigits(_)
DecimalDigits(n) ==
  IF n < 10 THEN <<48 + n>> ELSE Append(DecimalDigits(n \div 10), 48 + (n % 10))
NumberToString(n) == Str(DecimalDigits(n))

\* Math.floor(100000 + Math.random() * 900000).toString(), where r is
\* Math.floor(Math.random() * 900000)
GenerateCode(r) == NumberToString(100000 + r)

\* "+12", "+34", "12" (no plus sign), undefined
Phones == {Str(<<43, 49, 50>>), Str(<<43, 51, 52>>), Str(<<49, 50>>), Undefined}
\* What Math.random() can give: the least and the greatest code
CodeDraws == {0, 899999}
CodeArgs == {GenerateCode(r) : r \in CodeDraws}

\* (a verifyCode that leaves the entry in the Map when the code is right)
verifyCode_reusable(phoneNumber, code) ==
  LET verification == pendingVerifications[phoneNumber]
  IN IF verification # Undefined /\ verification[2] = code
     THEN [map |-> pendingVerifications, result |-> Result(TRUE, Null)]
     ELSE [map |-> pendingVerifications,
           result |-> Result(FALSE, Error("Invalid verification code"))]

\* (an attempt check that lets one more call through)
AttemptsExhausted_offByOne(verification) == verification[4] > maxAttempts

\* verification.attempts >= 3
AttemptsExhausted(verification) == verification[4] >= maxAttempts

\* (an expiry check that never fires)
Expired_never(verification) == FALSE

\* Date.now() > verification.expiresAt
Expired(verification) == now > verification[3]

\* (a send that keeps the entry already pending for the number)
sendVerificationCode_keepEarlier(phoneNumber, r) ==
  IF ~ValidPhone(phoneNumber)
  THEN [map |-> pendingVerifications,
        result |-> Result(FALSE,
          Error("Invalid phone number format. Use E.164 format (+1234567890)"))]
  ELSE IF pendingVerifications[phoneNumber] # Undefined
  THEN [map |-> pendingVerifications, result |-> Result(TRUE, Null)]
  ELSE [map |-> [pendingVerifications EXCEPT
                   ![phoneNumber] = Entry(GenerateCode(r), now + expiryMs, 0)],
        result |-> Result(TRUE, Null)]

\* The body of sendVerificationCode after its delay: the Map after it and the
\* value its promise resolves to.
sendVerificationCode(phoneNumber, r) ==
  IF ~ValidPhone(phoneNumber)
  THEN [map |-> pendingVerifications,
        result |-> Result(FALSE,
          Error("Invalid phone number format. Use E.164 format (+1234567890)"))]
  ELSE [map |-> [pendingVerifications EXCEPT
                   ![phoneNumber] = Entry(GenerateCode(r), now + expiryMs, 0)],
        result |-> Result(TRUE, Null)]

\* The body of verifyCode after its delay.
verifyCode(phoneNumber, code) ==
  LET verification == pendingVerifications[phoneNumber]
      deleted == [pendingVerifications EXCEPT ![phoneNumber] = Undefined]
  IN IF verification = Undefined
     THEN [map |-> pendingVerifications,
           result |-> Result(FALSE, Error("No pending verification for this phone number"))]
     ELSE IF Expired(verification)
     THEN [map |-> deleted,
           result |-> Result(FALSE, Error("Verification code has expired"))]
     ELSE IF AttemptsExhausted(verification)
     THEN [map |-> deleted,
           result |-> Result(FALSE,
             Error("Too many failed attempts. Please request a new code."))]
     ELSE IF verification[2] # code
     THEN [map |-> [pendingVerifications EXCEPT
                      ![phoneNumber] = Entry(verification[2], verification[3],
                                             verification[4] + 1)],
           result |-> Result(FALSE, Error("Invalid verification code"))]
     ELSE [map |-> deleted, result |-> Result(TRUE, Null)]

NoReply == [op |-> "none", phone |-> Undefined, code |-> Undefined,
            at |-> 0, prior |-> 0, before |-> Undefined, result |-> Undefined]
NoSms ==
  /\ pendingVerifications = [p \in Phones |-> Undefined]
  /\ now = 0
  /\ reply = NoReply
  /\ issued = [p \in Phones |-> Undefined]
  /\ wrongCalls = [p \in Phones |-> 0]

\* ---------------------------------------------------- facets (identity contexts)
\* src/unnamed/part_006.  A facet object is <<"facet", id, name, type>> (its
\* createdAt and updatedAt stamps are left out: nothing reads them); the data
\* argument of updateFacet is <<"data", id, name, type>>, each member a value
\* or Absent when the object has no such property.  {facet|facets|success,
\* error} is Result(first, error), an Error object Error(message).
Absent == <<"absent">>
Facet(id, name, type) == <<"facet", id, name, type>>
Data(id, name, type) == <<"data", id, name, type>>

\* FacetTypes: 'Professional', 'Social', 'Business', 'Custom'
Professional == Str(<<80, 114, 111, 102, 101, 115, 115, 105, 111, 110, 97, 108>>)
Social == Str(<<83, 111, 99, 105, 97, 108>>)
Business == Str(<<66, 117, 115, 105, 110, 101, 115, 115>>)
Custom == Str(<<67, 117, 115, 116, 111, 109>>)
FacetTypes == {Professional, Social, Business, Custom}

\* What JavaScript takes for true in a condition; a property the object does
\* not have reads as undefined.
Truthy(v) == v \notin {Undefined, Null, Absent, Str(<<>>), Bool(FALSE)}

\* String.prototype.toLowerCase and trim, on code units (Basic Latin letters;
\* space, tab, line breaks and no-break space)
toLowerCase(cu) == [i \in 1..Len(cu) |-> IF cu[i] >= 65 /\ cu[i] <= 90 THEN cu[i] + 32 ELSE cu[i]]
IsSpace(c) == c \in {9, 10, 11, 12, 13, 32, 160}
RECURSIVE trimStart(_)
trimStart(cu) == IF cu = <<>> \/ ~IsSpace(Head(cu)) THEN cu ELSE trimStart(Tail(cu))
RECURSIVE trimEnd(_)
trimEnd(cu) ==
  IF cu = <<>> \/ ~IsSpace(cu[Len(cu)]) THEN cu ELSE trimEnd(SubSeq(cu, 1, Len(cu) - 1))
trim(cu) == trimEnd(trimStart(cu))

\* JSON.stringify of the array of facets: each object is written as its
\* members in order, a member whose value is undefined being left out;
\* JSON.parse reads the objects back, a member that is not there reading as
\* undefined.
HasValue(member) == member[2] # Undefined
Members(f) ==
  SelectSeq(<< <<"id", f[2]>>, <<"name", f[3]>>, <<"type", f[4]>> >>, HasValue)
JSONstringify(facets) == <<"json", [i \in 1..Len(facets) |-> Members(facets[i])]>>
Member(object, key) ==
  IF \E i \in 1..Len(object) : object[i][1] = key
  THEN object[CHOOSE i \in 1..Len(object) : object[i][1] = key][2]
  ELSE Undefined
JSONparse(text) ==
  [i \in 1..Len(text[2]) |->
     Facet(Member(text[2][i], "id"), Member(text[2][i], "name"), Member(text[2][i], "type"))]

\* getStorage(): global.AsyncStorage if there is one, else localStorage if
\* there is one, else an adapter over a memoryStore object that getStorage
\* creates empty each time it is called.
StorageEnvs == {"AsyncStorage", "localStorage", "memory"}
\* storage.getItem(STORAGE_KEY): with the memory adapter, memoryStore[key] ||
\* null of the store just created
getItem == IF storageEnv = "memory" THEN Null ELSE storage
\* storage.setItem(STORAGE_KEY, value): what is kept under the key afterwards;
\* the memory adapter writes to the store just created, which nothing refers
\* to after the call.
setItem(value) == IF storageEnv = "memory" THEN storage ELSE value

loadFacets == LET data == getItem IN IF Truthy(data) THEN JSONparse(data) ELSE <<>>
saveFacets(facets) == setItem(JSONstringify(facets))

\* `facet_${Date.now()}_${Math.random().toString(36).substr(2, 9)}`: the n-th
\* pair of clock reading and draw, taken to differ from the pairs before it.
generateId(n) == Str(<<102, 97, 99, 101, 116, 95>> \o DecimalDigits(n))

\* What a call leaves under the storage key and what its promise resolves to.
Settled(kept, result) == [storage |-> kept, result |-> result]
Failed(message) == Settled(storage, Result(Null, Error(message)))
InvalidType == "Invalid facet type. Must be one of: Professional, Social, Business, Custom"

\* f.name.toLowerCase()
NameKey(f) == toLowerCase(f[3][2])
\* facets.findIndex(f => f.id === id), counted from 1; 0 when there is none
findIndex(facets, id) ==
  IF \E i \in 1..Len(facets) : facets[i][2] = id
  THEN CHOOSE i \in 1..Len(facets) :
         facets[i][2] = id /\ \A j \in 1..(i - 1) : facets[j][2] # id
  ELSE 0

\* createFacet, lines 95-101: the error thrown, or Null
createRejects(name, type) ==
  IF ~Truthy(name) \/ ~IsStr(name) \/ Len(trim(name[2])) = 0
  THEN Error("Facet name is required")
  ELSE IF type \notin FacetTypes THEN Error(InvalidType)
  ELSE Null
\* createFacet, lines 105-121, on the list loadFacets gave
createSave(facets, name, type, id) ==
  IF \E i \in 1..Len(facets) : NameKey(facets[i]) = toLowerCase(trim(name[2]))
  THEN Failed("A facet with this name already exists")
  ELSE LET newFacet == Facet(id, Str(trim(name[2])), type)
       IN Settled(saveFacets(Append(facets, newFacet)), Result(newFacet, Null))
createFacet(name, type, id) ==
  IF createRejects(name, type) # Null
  THEN Settled(storage, Result(Null, createRejects(name, type)))
  ELSE createSave(loadFacets, name, type, id)

getFacets == Settled(storage, Result(loadFacets, Null))

getFacetById(id) ==
  LET facets == loadFacets
      index == findIndex(facets, id)
  IN IF index = 0 THEN Failed("Facet not found")
     ELSE Settled(storage, Result(facets[index], Null))

\* (an update that takes only the name and the type from data)
Spread_nameAndType(facet, data) ==
  Facet(facet[2],
        IF Truthy(data[3]) THEN Str(trim(data[3][2])) ELSE facet[3],
        IF Truthy(data[4]) THEN data[4] ELSE facet[4])

\* { ...facets[index], ...data, name: data.name ? data.name.trim() :
\* facets[index].name, updatedAt }
Spread(facet, data) ==
  Facet(IF data[2] = Absent THEN facet[2] ELSE data[2],
        IF Truthy(data[3]) THEN Str(trim(data[3][2])) ELSE facet[3],
        IF data[4] = Absent THEN facet[4] ELSE data[4])

\* updateFacet, lines 176-204, on the list loadFacets gave
updateSave(facets, id, data) ==
  LET index == findIndex(facets, id)
  IN IF index = 0 THEN Failed("Facet not found")
     ELSE IF data = Undefined
     THEN Failed("Cannot read properties of undefined (reading 'type')")
     ELSE IF Truthy(data[4]) /\ data[4] \notin FacetTypes THEN Failed(InvalidType)
     ELSE IF /\ Truthy(data[3])
             /\ toLowerCase(trim(data[3][2])) # NameKey(facets[index])
             /\ \E i \in 1..Len(facets) :
                  facets[i][2] # id /\ NameKey(facets[i]) = toLowerCase(trim(data[3][2]))
     THEN Failed("A facet with this name already exists")
     ELSE LET updated == [facets EXCEPT ![index] = Spread(facets[index], data)]
          IN Settled(saveFacets(updated), Result(updated[index], Null))
updateFacet(id, data) ==
  IF ~Truthy(id) THEN Failed("Facet ID is required")
  ELSE updateSave(loadFacets, id, data)

\* facets.splice(index, 1)
splice(facets, index) == SubSeq(facets, 1, index - 1) \o SubSeq(facets, index + 1, Len(facets))
\* deleteFacet, lines 223-236, on the list loadFacets gave; deleteProfile, which
\* it then awaits, catches its own errors and writes under another key.
deleteSave(facets, id) ==
  LET index == findIndex(facets, id)
  IN IF index = 0 THEN Settled(storage, Result(FALSE, Error("Facet not found")))
     ELSE Settled(saveFacets(splice(facets, index)), Result(TRUE, Null))
deleteFacet(id) ==
  IF ~Truthy(id) THEN Settled(storage, Result(FALSE, Error("Facet ID is required")))
  ELSE deleteSave(loadFacets, id)

\* The names, types and ids the calls are made with: "a", "A", " b", " ",
\* undefined; 'Social', 'Custom', "X"; the ids generated so far and undefined.
NameArgs == {Str(<<97>>), Str(<<65>>), Str(<<32, 98>>), Str(<<32>>), Undefined}
TypeArgs == {Social, Custom, Str(<<88>>)}
IdArgs == {generateId(n) : n \in 1..ids} \cup {Undefined}
\* The data objects: {name: "A"}, {name: " b", type: 'Custom'}, {name: " "},
\* {type: ""}, {type: "X"}, an object that carries the id of a facet (a facet
\* object has one), and no object.
DataArgs ==
  {Data(Absent, Str(<<65>>), Absent), Data(Absent, Str(<<32, 98>>), Custom),
   Data(Absent, Str(<<32>>), Absent), Data(Absent, Absent, Str(<<>>)),
   Data(Absent, Absent, Str(<<88>>)), Undefined}
    \cup {Data(generateId(n), Absent, Absent) : n \in 1..ids}

\* A finished call of the facet functions, and no call yet.
FacetCall(op, args, result) == [op |-> op, args |-> args, result |-> result]
NoFacetCall == FacetCall("none", <<>>, Undefined)
\* An overlapping caller that has no call in progress.
NoJob == [pc |-> "idle", op |-> "none", args |-> <<>>, facets |-> <<>>, out |-> Undefined]
NoFacets ==
  /\ storage = Null
  /\ facetReply = NoFacetCall
  /\ ids = 0
  /\ made = {}
  /\ jobs = [t \in Callers |-> NoJob]

\* The crypto module and the verification service keep nothing in storage.
Init ==
  /\ prng \in BOOLEAN
  /\ keyring = {}
  /\ env = Null
  /\ last = Idle
  /\ NoCallers
  /\ NoSms
  /\ NoFacets
  /\ storageEnv = "memory"

GenerateKeyPair ==
  /\ last.op = "idle"
  /\ \E e \in KeyDraws :
    LET r == generateKeyPair(e)
    IN /\ last' = Call("generateKeyPair", <<>>, e, r)
       /\ keyring' = IF IsThrow(r) THEN keyring ELSE keyring \cup {r}
       /\ UNCHANGED <<prng, env, callers, sms, facetVars>>

Encrypt ==
  /\ last.op = "idle"
  /\ \E m \in MessageArgs, pk \in PubArgs, sk \in SecArgs, e \in NonceDraws :
    LET r == encrypt(m, pk, sk, e)
    IN /\ last' = Call("encrypt", <<m, pk, sk>>, e, r)
       /\ env' = IF IsEnvelope(r) THEN r ELSE env
       /\ UNCHANGED <<prng, keyring, callers, sms, facetVars>>

Decrypt ==
  /\ last.op = "idle"
  /\ \E c \in CiphertextArgs(env), n \in NonceArgs, pk \in PubArgs, sk \in SecArgs :
    /\ last' = Call("decrypt", <<c, n, pk, sk>>, NoDraw, decrypt(c, n, pk, sk))
    /\ UNCHANGED <<prng, keyring, env, callers, sms, facetVars>>

DeriveSharedSecret ==
  /\ last.op = "idle"
  /\ \E pk \in PubArgs, sk \in SecArgs :
    /\ last' = Call("deriveSharedSecret", <<pk, sk>>, NoDraw, deriveSharedSecret(pk, sk))
    /\ UNCHANGED <<prng, keyring, env, callers, sms, facetVars>>

EncryptWithSharedSecret ==
  /\ last.op = "idle"
  /\ \E m \in MessageArgs, s \in SharedArgs, e \in NonceDraws :
    LET r == encryptWithSharedSecret(m, s, e)
    IN /\ last' = Call("encryptWithSharedSecret", <<m, s>>, e, r)
       /\ env' = IF IsEnvelope(r) THEN r ELSE env
       /\ UNCHANGED <<prng, keyring, callers, sms, facetVars>>

DecryptWithSharedSecret ==
  /\ last.op = "idle"
  /\ \E c \in CiphertextArgs(env), n \in NonceArgs, s \in SharedArgs :
    /\ last' = Call("decryptWithSharedSecret", <<c, n, s>>, NoDraw,
                    decryptWithSharedSecret(c, n, s))
    /\ UNCHANGED <<prng, keyring, env, callers, sms, facetVars>>

Sign ==
  /\ last.op = "idle"
  /\ \E m \in MessageArgs, sk \in SignKeyArgs :
    /\ last' = Call("sign", <<m, sk>>, NoDraw, sign(m, sk))
    /\ UNCHANGED <<prng, keyring, env, callers, sms, facetVars>>

Verify ==
  /\ last.op = "idle"
  /\ \E m \in MessageArgs, sg \in SigArgs, pk \in VerifyKeyArgs :
    /\ last' = Call("verify", <<m, sg, pk>>, NoDraw, verify(m, sg, pk))
    /\ UNCHANGED <<prng, keyring, env, callers, sms, facetVars>>

\* The caller takes the result; the next call starts from the same module.
Return ==
  /\ last.op # "idle"
  /\ last' = Idle
  /\ UNCHANGED <<prng, keyring, env, callers, sms, facetVars>>

Next ==
  \/ Return
  \/ GenerateKeyPair
  \/ Encrypt
  \/ Decrypt
  \/ DeriveSharedSecret
  \/ EncryptWithSharedSecret
  \/ DecryptWithSharedSecret
  \/ Sign
  \/ Verify

Spec == Init /\ [][Next]_vars

\* -------------------------------------------------------- concurrent callers
\* Several callers run encrypt, decrypt, sign and verify at once.  A call is
\* taken statement group by statement group (the conversions of the arguments,
\* the NaCl primitive, the return) and the groups of different calls interleave
\* in any order; each call keeps its const locals in its own frame.  The
\* callers hold the key pairs generated before and the envelopes made from them.

\* What the callers pass: a text and a string with an unpaired surrogate; the
\* generated keys and, for a secret key, a text that is no base64.
ConcMessages == {Str(<<97>>), Str(<<55357>>)}
ConcPub == {kp[2] : kp \in keyring}
ConcSec == {kp[3] : kp \in keyring} \cup {NotBase64}
ConcCalls ==
  {Call("encrypt", <<m, pk, sk>>, e, Undefined) :
     m \in ConcMessages, pk \in ConcPub, sk \in ConcSec, e \in NonceDraws}
  \cup {Call("decrypt", <<encrypt(Str(<<97>>), B[2], A[3], e)[2], encodeBase64(e), A[2], sk>>,
               NoDraw, Undefined) :
          A \in keyring, B \in keyring, e \in NonceDraws, sk \in ConcSec}
  \cup {Call("sign", <<m, sk>>, NoDraw, Undefined) : m \in ConcMessages, sk \in ConcSec}
  \cup {Call("verify", <<m, sign(Str(<<97>>), K[3]), SigningPublicKey(K2[3])>>,
               NoDraw, Undefined) :
          m \in ConcMessages, K \in keyring, K2 \in keyring}

\* (one frame shared by all calls, as module-level variables would be)
FrameOf_shared(t) == "c1"

\* The frame that holds the locals of caller t's call.
FrameOf(t) == t

\* The const locals a call binds before it calls the primitive, in statement
\* order; a statement that throws leaves the thrown error.
Locals(c) ==
  CASE c.op = "encrypt" ->
         <<decodeUTF8(c.args[1]), generateNonce(c.rnd),
           decodeBase64(c.args[2]), decodeBase64(c.args[3])>>
    [] c.op = "decrypt" ->
         <<decodeBase64(c.args[1]), decodeBase64(c.args[2]),
           decodeBase64(c.args[3]), decodeBase64(c.args[4])>>
    [] c.op = "sign" ->
         LET decoded == decodeBase64(c.args[2])
         IN <<IF IsThrow(decoded) THEN decoded
              ELSE nacl_sign_keyPair_fromSeed(Slice32(decoded)),
              decodeUTF8(c.args[1])>>
    [] c.op = "verify" ->
         <<decodeUTF8(c.args[1]), decodeBase64(c.args[2]), decodeBase64(c.args[3])>>

\* The primitive's value for the locals l, or the error thrown before it.
Primitive(op, l) ==
  IF IsThrow(FirstThrow(l)) THEN FirstThrow(l)
  ELSE CASE op = "encrypt" -> nacl_box(l[1], l[2], l[3], l[4])
         [] op = "decrypt" -> nacl_box_open(l[1], l[2], l[3], l[4])
         [] op = "sign" -> nacl_sign_detached(l[2], l[1][3])
         [] op = "verify" -> nacl_sign_detached_verify(l[1], l[2], l[3])

\* What the call returns (or throws) with locals l and primitive's value v.
Outcome(op, l, v) ==
  CASE op = "encrypt" ->
         IF IsThrow(v) \/ v = Null THEN Null
         ELSE Envelope(encodeBase64(v), encodeBase64(l[2]))
    [] op = "decrypt" ->
         IF IsThrow(v) \/ v = Null THEN Null
         ELSE IF IsThrow(encodeUTF8(v)) THEN Null
         ELSE encodeUTF8(v)
    [] op = "sign" -> IF IsThrow(v) THEN v ELSE encodeBase64(v)
    [] op = "verify" -> IF IsThrow(v) THEN Bool(FALSE) ELSE v

ConcInit ==
  /\ prng \in BOOLEAN
  /\ keyring = IF prng THEN {generateKeyPair(e) : e \in KeyDraws} ELSE {}
  /\ env = Null
  /\ last = Idle
  /\ NoCallers
  /\ NoSms
  /\ NoFacets
  /\ storageEnv = "memory"

\* Caller t calls one of the four functions.
Invoke(t) ==
  /\ tasks[t].pc = "idle"
  /\ \E c \in ConcCalls :
       tasks' = [tasks EXCEPT ![t] = [pc |-> "called", call |-> c, result |-> Undefined]]
  /\ UNCHANGED <<prng, keyring, env, last, frames, sms, facetVars>>

\* The statements that convert the arguments (and draw the nonce).
Convert(t) ==
  /\ tasks[t].pc = "called"
  /\ frames' = [frames EXCEPT ![FrameOf(t)] = Locals(tasks[t].call)]
  /\ tasks' = [tasks EXCEPT ![t].pc = "converted"]
  /\ UNCHANGED <<prng, keyring, env, last, sms, facetVars>>

\* The call of the NaCl primitive on the locals.
Compute(t) ==
  /\ tasks[t].pc = "converted"
  /\ LET l == frames[FrameOf(t)]
     IN frames' = [frames EXCEPT ![FrameOf(t)] = Append(l, Primitive(tasks[t].call.op, l))]
  /\ tasks' = [tasks EXCEPT ![t].pc = "computed"]
  /\ UNCHANGED <<prng, keyring, env, last, sms, facetVars>>

\* The return statement (or the catch block); the locals go out of scope.
Finish(t) ==
  /\ tasks[t].pc = "computed"
  /\ LET l == frames[FrameOf(t)]
     IN tasks' = [tasks EXCEPT ![t].pc = "done",
                               ![t].result = Outcome(tasks[t].call.op, l, l[Len(l)])]
  /\ frames' = [frames EXCEPT ![FrameOf(t)] = <<>>]
  /\ UNCHANGED <<prng, keyring, env, last, sms, facetVars>>

\* The caller takes the result.
Collect(t) ==
  /\ tasks[t].pc = "done"
  /\ tasks' = [tasks EXCEPT ![t] = Resting]
  /\ UNCHANGED <<prng, keyring, env, last, frames, sms, facetVars>>

ConcNext ==
  \E t \in Callers :
    \/ Invoke(t)
    \/ Convert(t)
    \/ Compute(t)
    \/ Finish(t)
    \/ Collect(t)

ConcSpec == ConcInit /\ [][ConcNext]_vars

\* ------------------------------------------- verification service: its steps
\* Each call awaits its mock delay and then runs its body, which has no await,
\* to the end: the bodies of the calls made run one at a time, in any order.

\* sendVerificationCode(phoneNumber), after its delay
SendVerificationCode ==
  \E phoneNumber \in Phones, r \in CodeDraws :
    LET out == sendVerificationCode(phoneNumber, r)
    IN /\ pendingVerifications' = out.map
       /\ reply' = [op |-> "sendVerificationCode", phone |-> phoneNumber,
                    code |-> Undefined, at |-> now, prior |-> 0,
                    before |-> pendingVerifications[phoneNumber],
                    result |-> out.result]
       /\ issued' = IF out.result[2]
                    THEN [issued EXCEPT ![phoneNumber] = Append(out.map[phoneNumber], now)]
                    ELSE issued
       /\ wrongCalls' = IF out.result[2] THEN [wrongCalls EXCEPT ![phoneNumber] = 0]
                        ELSE wrongCalls
       /\ UNCHANGED <<prng, keyring, env, last, callers, now, facetVars>>

\* verifyCode(phoneNumber, code), after its delay
VerifyCode ==
  \E phoneNumber \in Phones, code \in CodeArgs :
    LET out == verifyCode(phoneNumber, code)
        wrong == /\ issued[phoneNumber][1] = "entry"
                 /\ \/ issued[phoneNumber][2] # code
                    \/ wrongCalls[phoneNumber] >= maxAttempts
    IN /\ wrong => wrongCalls[phoneNumber] < MaxWrongCalls
       /\ pendingVerifications' = out.map
       /\ reply' = [op |-> "verifyCode", phone |-> phoneNumber, code |-> code,
                    at |-> now, prior |-> wrongCalls[phoneNumber],
                    before |-> pendingVerifications[phoneNumber],
                    result |-> out.result]
       /\ issued' = IF out.result[2] THEN [issued EXCEPT ![phoneNumber] = Used(code)]
                    ELSE issued
       /\ wrongCalls' = IF wrong THEN [wrongCalls EXCEPT ![phoneNumber] = @ + 1]
                        ELSE IF out.result[2] THEN [wrongCalls EXCEPT ![phoneNumber] = 0]
                        ELSE wrongCalls
       /\ UNCHANGED <<prng, keyring, env, last, callers, now, facetVars>>

\* Time passes.
Tick ==
  /\ now < MaxTicks * TickMs
  /\ now' = now + TickMs
  /\ UNCHANGED <<prng, keyring, env, last, callers,
                 pendingVerifications, reply, issued, wrongCalls, facetVars>>

SmsNext ==
  \/ SendVerificationCode
  \/ VerifyCode
  \/ Tick

\* Nothing of the verification service depends on the crypto module.
SmsInit == Init /\ prng

SmsSpec == SmsInit /\ [][SmsNext]_vars

\* ------------------------------------------------------ facets: their calls
\* One call at a time, each completed before the next starts: a call runs from
\* its first line to the resolution of its promise in one step.

\* createFacet(name, type)
CreateFacet ==
  \E name \in NameArgs, type \in TypeArgs :
    LET out == createFacet(name, type, generateId(ids + 1))
        returned == out.result[2] # Null
    IN /\ returned => ids < MaxFacets
       /\ storage' = out.storage
       /\ facetReply' = FacetCall("createFacet", <<name, type>>, out.result)
       /\ ids' = IF returned THEN ids + 1 ELSE ids
       /\ made' = IF returned THEN made \cup {out.result[2][2]} ELSE made
       /\ UNCHANGED <<prng, keyring, env, last, callers, sms, storageEnv, jobs>>

\* getFacets()
GetFacets ==
  /\ facetReply' = FacetCall("getFacets", <<>>, getFacets.result)
  /\ UNCHANGED <<prng, keyring, env, last, callers, sms,
                 storageEnv, storage, ids, made, jobs>>

\* getFacetById(id)
GetFacetById ==
  \E id \in IdArgs :
    /\ facetReply' = FacetCall("getFacetById", <<id>>, getFacetById(id).result)
    /\ UNCHANGED <<prng, keyring, env, last, callers, sms,
                   storageEnv, storage, ids, made, jobs>>

\* updateFacet(id, data)
UpdateFacet ==
  \E id \in IdArgs, data \in DataArgs :
    LET out == updateFacet(id, data)
    IN /\ storage' = out.storage
       /\ facetReply' = FacetCall("updateFacet", <<id, data>>, out.result)
       /\ UNCHANGED <<prng, keyring, env, last, callers, sms, storageEnv, ids, made, jobs>>

\* deleteFacet(id)
DeleteFacet ==
  \E id \in IdArgs :
    LET out == deleteFacet(id)
    IN /\ storage' = out.storage
       /\ facetReply' = FacetCall("deleteFacet", <<id>>, out.result)
       /\ made' = IF out.result[2] THEN made \ {id} ELSE made
       /\ UNCHANGED <<prng, keyring, env, last, callers, sms, storageEnv, ids, jobs>>

FacetNext ==
  \/ CreateFacet
  \/ GetFacets
  \/ GetFacetById
  \/ UpdateFacet
  \/ DeleteFacet

\* The facet functions run with any of the three storages.
FacetInit ==
  /\ prng = TRUE
  /\ keyring = {}
  /\ env = Null
  /\ last = Idle
  /\ NoCallers
  /\ NoSms
  /\ NoFacets
  /\ storageEnv \in StorageEnvs

FacetSpec == FacetInit /\ [][FacetNext]_vars

\* --------------------------------------------- facets: calls that overlap
\* createFacet, updateFacet and deleteFacet each await loadFacets, work on the
\* list it gave and await saveFacets: between the two awaits, and after the
\* second, the other callers' calls run.

\* "a" and " b"; a rename to "A"; the ids the callers have been given
RaceNames == {Str(<<97>>), Str(<<32, 98>>)}
RaceData == {Data(Absent, Str(<<65>>), Absent)}
RaceIds == made
RaceCalls ==
  {<<"createFacet", <<name, Social>> >> : name \in RaceNames}
    \cup {<<"updateFacet", <<id, data>> >> : id \in RaceIds, data \in RaceData}
    \cup {<<"deleteFacet", <<id>> >> : id \in RaceIds}

Job(pc, call, facets, out) ==
  [pc |-> pc, op |-> call[1], args |-> call[2], facets |-> facets, out |-> out]

\* Caller t makes a call: it runs up to the item read of loadFacets.
Begin(t) ==
  /\ jobs[t].pc = "idle"
  /\ \E call \in RaceCalls :
       jobs' = [jobs EXCEPT ![t] = Job("loaded", call, loadFacets, Undefined)]
  /\ UNCHANGED <<prng, keyring, env, last, callers, sms,
                 storageEnv, storage, facetReply, ids, made>>

\* What the call of job j does with the list it loaded, up to the item write
\* of saveFacets.
Continue(j) ==
  IF j.op = "createFacet"
  THEN createSave(j.facets, j.args[1], j.args[2], generateId(ids + 1))
  ELSE IF j.op = "updateFacet"
  THEN updateSave(j.facets, j.args[1], j.args[2])
  ELSE deleteSave(j.facets, j.args[1])

\* Caller t's call goes on after loadFacets: it checks, changes its list and
\* writes it.
Save(t) ==
  /\ jobs[t].pc = "loaded"
  /\ LET out == Continue(jobs[t])
         generated == jobs[t].op = "createFacet" /\ out.result[2] # Null
     IN /\ generated => ids < MaxFacets
        /\ storage' = out.storage
        /\ ids' = IF generated THEN ids + 1 ELSE ids
        /\ jobs' = [jobs EXCEPT ![t].pc = "saved", ![t].out = out.result]
  /\ UNCHANGED <<prng, keyring, env, last, callers, sms, storageEnv, facetReply, made>>

\* Caller t's promise resolves.
Settle(t) ==
  /\ jobs[t].pc = "saved"
  /\ facetReply' = FacetCall(jobs[t].op, jobs[t].args, jobs[t].out)
  /\ made' = IF jobs[t].op = "createFacet" /\ jobs[t].out[2] # Null
             THEN made \cup {jobs[t].out[2][2]}
             ELSE IF jobs[t].op = "deleteFacet" /\ jobs[t].out[2] = TRUE
             THEN made \ {jobs[t].args[1]}
             ELSE made
  /\ jobs' = [jobs EXCEPT ![t] = NoJob]
  /\ UNCHANGED <<prng, keyring, env, last, callers, sms, storageEnv, storage, ids>>

RaceNext ==
  \E t \in Callers :
    \/ Begin(t)
    \/ Save(t)
    \/ Settle(t)

RaceSpec == FacetInit /\ [][RaceNext]_vars

\* ------------------------------------------------------------------- claims
True == Bool(TRUE)
False == Bool(FALSE)

\* Two texts that decode, and to the same bytes.
SameBytes(t, u) ==
  /\ ~IsThrow(decodeBase64(t))
  /\ ~IsThrow(decodeBase64(u))
  /\ decodeBase64(t) = decodeBase64(u)

\* The envelope in hand is one encrypt(M, B.publicKey, A.secretKey) returns
\* (on the draw of the nonce it carries).
Encrypted(M, A, B) ==
  /\ IsEnvelope(env)
  /\ encrypt(M, B[2], A[3], decodeBase64(env[3])) = env

\* The call that has just returned is decrypt, and the envelope in hand is one
\* A sent to B.
DecryptsEnvelope(A, B) ==
  /\ last.op = "decrypt"
  /\ \E M \in Texts : Encrypted(M, A, B)

\* C1 (as amended): for every well-formed message string M (no unpaired
\* surrogate) and key pairs A, B returned by generateKeyPair,
\* encrypt(M, B.publicKey, A.secretKey) returns an envelope and
\* decrypt(encrypted, nonce, A.publicKey, B.secretKey) returns exactly M; for a
\* string with an unpaired surrogate encrypt returns null.
C1_RoundTrip ==
  /\ last.op = "encrypt"
     => \A A \in keyring, B \in keyring :
          (IsStr(last.args[1]) /\ last.args[2] = B[2] /\ last.args[3] = A[3])
          => IF WellFormedUTF16(last.args[1][2])
             THEN IsEnvelope(last.result) ELSE last.result = Null
  /\ (last.op = "decrypt" /\ IsEnvelope(env))
     => \A A \in keyring, B \in keyring, M \in Texts :
          (/\ last.args = <<env[2], env[3], A[2], B[3]>>
           /\ Encrypted(M, A, B))
          => last.result = M

\* C1 as stated: encrypt returns an envelope for every message string M.
C1_Original ==
  last.op = "encrypt"
  => \A A \in keyring, B \in keyring :
       (IsStr(last.args[1]) /\ last.args[2] = B[2] /\ last.args[3] = A[3])
       => IsEnvelope(last.result)

\* B has decrypted the emoji (four UTF-8 bytes) that A, another key pair, sent.
C1_Witness ==
  \E A \in keyring, B \in keyring :
    /\ A # B
    /\ DecryptsEnvelope(A, B)
    /\ Encrypted(Str(<<55357, 56832>>), A, B)
    /\ last.args = <<env[2], env[3], A[2], B[3]>>
    /\ last.result = Str(<<55357, 56832>>)

\* C2: for every message M and every key pair K returned by generateKeyPair,
\* verify(M, sign(M, K.secretKey), K.publicKey) returns true.
C2_SignVerify ==
  last.op = "verify"
  => \A K \in keyring, M \in Texts :
       last.args = <<M, sign(M, K[3]), K[2]>> => last.result = True

\* C3: each of encrypt, decrypt, deriveSharedSecret, encryptWithSharedSecret,
\* decryptWithSharedSecret, sign and verify returns a value for every input
\* and never throws.
C3_NoThrow ==
  last.op \in {"encrypt", "decrypt", "deriveSharedSecret", "encryptWithSharedSecret",
               "decryptWithSharedSecret", "sign", "verify"}
  => ~IsThrow(last.result)

ReturnedEnvelope(call) ==
  /\ call.op \in {"encrypt", "encryptWithSharedSecret"}
  /\ IsEnvelope(call.result)

\* The secretbox key, and the nonce, of the ciphertext in an envelope.
KeyOf(v) == decodeBase64(v[2])[4]
NonceOf(v) == decodeBase64(v[2])[3]

\* C5 (as amended): every call of encrypt and of encryptWithSharedSecret draws
\* one 24-byte nonce from the random source and returns an envelope whose
\* nonce field, and whose ciphertext, carry exactly the nonce drawn in that
\* call; two envelopes carry the same nonce only if the random source returned
\* the same 24 bytes in both calls.
C5_NonceIsTheDraw ==
  ReturnedEnvelope(last)
  => /\ decodeBase64(last.result[3]) = last.rnd
     /\ NonceOf(last.result) = last.rnd
     /\ ByteLen(last.rnd) = nonceLength

\* C5 as stated: no two envelopes returned under the same keys (or the same
\* shared secret) carry the same nonce.
C5_Original ==
  [][(/\ ReturnedEnvelope(last')
      /\ IsEnvelope(env)
      /\ KeyOf(env) = KeyOf(env'))
     => decodeBase64(env'[3]) # decodeBase64(env[3])]_vars

\* With an envelope under the same shared key already returned,
\* encryptWithSharedSecret has returned one carrying the nonce it drew.
C5_Witness ==
  /\ last.op = "encryptWithSharedSecret"
  /\ IsEnvelope(last.result)
  /\ KeyOf(last.result) = decodeBase64(last.args[2])
  /\ last.rnd = NonceBytes(NumNonces)
  /\ decodeBase64(last.result[3]) = NonceBytes(NumNonces)

\* C6 (as amended): for an envelope produced by encrypt(M, B.publicKey,
\* A.secretKey), decrypt(encrypted, nonce, P, X) returns null for every pair
\* (P, X) of a public key and a secret key of generated key pairs other than
\* (A.publicKey, B.secretKey) and (B.publicKey, A.secretKey): besides the
\* recipient, the sender's own secret key with the recipient's public key
\* opens the envelope.
C6_OnlyTheTwoParties ==
  (last.op = "decrypt" /\ IsEnvelope(env) /\ last.result # Null)
  => \A A \in keyring, B \in keyring :
       (/\ last.args[1] = env[2]
        /\ last.args[2] = env[3]
        /\ DecryptsEnvelope(A, B))
       => \/ SameBytes(last.args[3], A[2]) /\ SameBytes(last.args[4], B[3])
          \/ SameBytes(last.args[3], B[2]) /\ SameBytes(last.args[4], A[3])

\* C6 as stated: decrypt returns null for every secret key X other than
\* B.secretKey.
C6_Original ==
  (last.op = "decrypt" /\ IsEnvelope(env))
  => \A A \in keyring, B \in keyring :
       (/\ last.args[1] = env[2]
        /\ last.args[2] = env[3]
        /\ \E X \in keyring : X[3] # B[3] /\ last.args[4] = X[3]
        /\ DecryptsEnvelope(A, B))
       => last.result = Null

\* B's public key with B's own secret key has failed to open what A sent B.
C6_Witness ==
  \E A \in keyring, B \in keyring :
    /\ A # B
    /\ DecryptsEnvelope(A, B)
    /\ ~DecryptsEnvelope(B, B)
    /\ last.args = <<env[2], env[3], B[2], B[3]>>
    /\ last.result = Null

\* A key text that does not decode to 32 bytes.
BadKey(t) == IsThrow(decodeBase64(t)) \/ ByteLen(decodeBase64(t)) # 32

\* C7: decrypt and decryptWithSharedSecret return a text or null and verify
\* returns a boolean, for every combination of arguments; verify returns false
\* for every malformed input.
C7_NeverThrow ==
  /\ last.op \in {"decrypt", "decryptWithSharedSecret"}
     => IsStr(last.result) \/ last.result = Null
  /\ last.op = "verify"
     => /\ last.result \in {True, False}
        /\ (\/ IsThrow(decodeUTF8(last.args[1]))
            \/ IsThrow(decodeBase64(last.args[2]))
            \/ ByteLen(decodeBase64(last.args[2])) # signatureLength
            \/ BadKey(last.args[3]))
           => last.result = False

\* verify has been given a signature that is no base64, under a real key.
C7_Witness ==
  /\ last.op = "verify"
  /\ last.args[2] = NotBase64
  /\ \E K \in keyring : last.args[3] = SigningPublicKey(K[3])
  /\ last.result = False

\* C8: with sig = sign(M, K.secretKey), verify(M2, sig, P) returns false when
\* M2 differs from M or P is the public key of a key pair other than K; it
\* returns true only for the signed message under the matching signing key.
C8_Soundness ==
  last.op = "verify"
  => \A K \in keyring, M \in Texts :
       last.args[2] = sign(M, K[3])
       => /\ (\/ last.args[1] # M
              \/ \E K2 \in keyring : K2 # K /\ SameBytes(last.args[3], K2[2]))
             => last.result = False
          /\ last.result = True
             => /\ last.args[1] = M
                /\ SameBytes(last.args[3], SigningPublicKey(K[3]))

\* Another message has been checked against K's signature under K's signing key.
C8_Witness ==
  \E K \in keyring :
    /\ last.op = "verify"
    /\ last.args = <<Str(<<97>>), sign(Str(<<233>>), K[3]), SigningPublicKey(K[3])>>
    /\ last.result = False

\* C9: encrypt returns null, without throwing, whenever a key argument fails
\* to decode or decodes to other than 32 bytes or the message cannot be
\* converted to bytes; every other result is an envelope whose nonce decodes to
\* 24 bytes and whose ciphertext decodes to the message's bytes plus the tag.
C9_EncryptSentinel ==
  last.op = "encrypt"
  => /\ last.result = Null \/ IsEnvelope(last.result)
     /\ (BadKey(last.args[2]) \/ BadKey(last.args[3]) \/ IsThrow(decodeUTF8(last.args[1])))
        => last.result = Null
     /\ IsEnvelope(last.result)
        => /\ ~IsThrow(decodeBase64(last.result[3]))
           /\ ByteLen(decodeBase64(last.result[3])) = nonceLength
           /\ ~IsThrow(decodeBase64(last.result[2]))
           /\ ByteLen(decodeBase64(last.result[2]))
                = ByteLen(decodeUTF8(last.args[1])) + overheadLength

\* encrypt has been given a three-byte secret key with a real public key.
C9_Witness ==
  /\ last.op = "encrypt"
  /\ \E K \in keyring : last.args[2] = K[2]
  /\ last.args[1] \in Texts
  /\ last.args[3] = ThreeBytes
  /\ last.result = Null

\* C10: for key pairs A and B returned by generateKeyPair,
\* deriveSharedSecret(B.publicKey, A.secretKey) returns the value that
\* deriveSharedSecret(A.publicKey, B.secretKey) returns.
C10_Symmetry ==
  last.op = "deriveSharedSecret"
  => \A A \in keyring, B \in keyring :
       last.args = <<B[2], A[3]>>
       => /\ ~IsThrow(last.result)
          /\ last.result = deriveSharedSecret(A[2], B[3])

\* A has derived the secret it shares with another key pair B.
C10_Witness ==
  \E A \in keyring, B \in keyring :
    /\ A # B
    /\ last.op = "deriveSharedSecret"
    /\ last.args = <<B[2], A[3]>>
    /\ last.result = deriveSharedSecret(A[2], B[3])
    /\ last.result = encodeBase64(SharedKey(PowMod(GroupGen, decodeBase64(A[3])[2] * decodeBase64(B[3])[2])))

\* The envelope in hand is one encryptWithSharedSecret(M, S) returns (on the
\* draw of the nonce it carries).
SealedWith(M, S) ==
  /\ IsEnvelope(env)
  /\ encryptWithSharedSecret(M, S, decodeBase64(env[3])) = env

\* C11 (as amended): for every well-formed message string M and every shared
\* secret S derived from two generated key pairs, encryptWithSharedSecret(M, S)
\* returns an envelope and decryptWithSharedSecret(encrypted, nonce, S) returns
\* exactly M; with a shared secret that decodes to other bytes, or does not
\* decode, it returns null; for a string with an unpaired surrogate
\* encryptWithSharedSecret returns null.
C11_SharedRoundTrip ==
  /\ (/\ last.op = "encryptWithSharedSecret"
      /\ IsStr(last.args[1])
      /\ last.args[2] \in DerivedSecrets)
     => IF WellFormedUTF16(last.args[1][2])
        THEN IsEnvelope(last.result) ELSE last.result = Null
  /\ (last.op = "decryptWithSharedSecret" /\ IsEnvelope(env))
     => \A S \in DerivedSecrets, M \in Texts :
          (/\ last.args[1] = env[2]
           /\ last.args[2] = env[3]
           /\ SealedWith(M, S))
          => IF SameBytes(last.args[3], S)
             THEN last.result = M ELSE last.result = Null

\* C11 as stated: encryptWithSharedSecret returns an envelope for every
\* message string M.
C11_Original ==
  (/\ last.op = "encryptWithSharedSecret"
   /\ IsStr(last.args[1])
   /\ last.args[2] \in DerivedSecrets)
  => IsEnvelope(last.result)

\* The secret A shares with another key pair B has opened the emoji sealed
\* with it.
C11_Witness ==
  \E A \in keyring, B \in keyring :
    /\ A # B
    /\ last.op = "decryptWithSharedSecret"
    /\ SealedWith(Str(<<55357, 56832>>), deriveSharedSecret(B[2], A[3]))
    /\ last.args = <<env[2], env[3], deriveSharedSecret(A[2], B[3])>>
    /\ last.result = Str(<<55357, 56832>>)

\* C12: for an envelope produced by encrypt(M, B.publicKey, A.secretKey),
\* decrypt of its ciphertext by B (with B.secretKey) returns null when the nonce
\* decodes to bytes other than the returned nonce (or does not decode) and
\* when the sender public key is a key other than A.publicKey (other bytes, or
\* none).
C12_NonceAndSenderBound ==
  (last.op = "decrypt" /\ IsEnvelope(env))
  => \A A \in keyring, B \in keyring :
       (/\ SameBytes(last.args[1], env[2])
        /\ SameBytes(last.args[4], B[3])
        /\ \/ ~SameBytes(last.args[2], env[3])
           \/ ~SameBytes(last.args[3], A[2])
        /\ DecryptsEnvelope(A, B))
       => last.result = Null

\* B has tried A's envelope, with A's public key, under another nonce than the
\* one that came with it.
C12_Witness ==
  \E A \in keyring, B \in keyring, n \in NonceDraws :
    /\ A # B
    /\ DecryptsEnvelope(A, B)
    /\ n # decodeBase64(env[3])
    /\ last.args = <<env[2], encodeBase64(n), A[2], B[3]>>
    /\ last.result = Null

\* A nonce text that does not decode to 24 bytes.
BadNonce(t) == IsThrow(decodeBase64(t)) \/ ByteLen(decodeBase64(t)) # nonceLength

\* The failure causes of the decrypt call that has just returned, for the
\* envelope in hand sent by A to B: a malformed argument; a ciphertext of other
\* bytes under the right nonce and keys; a key pair that is neither party's.
DecryptMalformed ==
  \/ IsThrow(decodeBase64(last.args[1]))
  \/ BadNonce(last.args[2])
  \/ BadKey(last.args[3])
  \/ BadKey(last.args[4])
DecryptTampered(A, B) ==
  /\ ~IsThrow(decodeBase64(last.args[1]))
  /\ decodeBase64(last.args[1]) # decodeBase64(env[2])
  /\ SameBytes(last.args[2], env[3])
  /\ SameBytes(last.args[3], A[2])
  /\ SameBytes(last.args[4], B[3])
DecryptWrongKey(A, B) ==
  /\ SameBytes(last.args[1], env[2])
  /\ SameBytes(last.args[2], env[3])
  /\ ~BadKey(last.args[3])
  /\ ~BadKey(last.args[4])
  /\ ~(SameBytes(last.args[3], A[2]) /\ SameBytes(last.args[4], B[3]))
  /\ ~(SameBytes(last.args[3], B[2]) /\ SameBytes(last.args[4], A[3]))

\* C13: decrypt and decryptWithSharedSecret return the one value null for a
\* wrong key, for a tampered ciphertext and for malformed input, and verify
\* returns the one value false; the run that differs from the failed one only
\* in its failure cause (here: a ciphertext, or a signature, that is no
\* base64) returns the identical value.
C13_FailureIndistinguishable ==
  /\ last.op = "decrypt"
     => /\ DecryptMalformed => last.result = Null
        /\ IsEnvelope(env)
           => \A A \in keyring, B \in keyring :
                (/\ DecryptTampered(A, B) \/ DecryptWrongKey(A, B)
                 /\ DecryptsEnvelope(A, B))
                => /\ last.result = Null
                   /\ last.result = decrypt(NotBase64, last.args[2],
                                             last.args[3], last.args[4])
  /\ last.op = "decryptWithSharedSecret"
     => /\ (\/ IsThrow(decodeBase64(last.args[1]))
            \/ BadNonce(last.args[2])
            \/ BadKey(last.args[3]))
           => last.result = Null
        /\ IsEnvelope(env)
           => \A S \in DerivedSecrets :
                (/\ SameBytes(last.args[2], env[3])
                 /\ ~IsThrow(decodeBase64(last.args[1]))
                 /\ \/ decodeBase64(last.args[1]) # decodeBase64(env[2])
                       /\ SameBytes(last.args[3], S)
                    \/ SameBytes(last.args[1], env[2])
                       /\ ~BadKey(last.args[3]) /\ ~SameBytes(last.args[3], S)
                 /\ \E M \in Texts : SealedWith(M, S))
                => /\ last.result = Null
                   /\ last.result = decryptWithSharedSecret(NotBase64, last.args[2],
                                                             last.args[3])
  /\ last.op = "verify"
     => \A K \in keyring, M \in Texts :
          (\/ last.args[2] = sign(M, K[3])
              /\ \/ last.args[1] # M
                 \/ ~SameBytes(last.args[3], SigningPublicKey(K[3]))
           \/ last.args[1] = M
              /\ last.args[2] # sign(M, K[3])
              /\ last.args[3] = SigningPublicKey(K[3]))
          => /\ last.result = False
             /\ last.result = verify(last.args[1], NotBase64, last.args[3])

\* B has been handed, in place of the ciphertext A sent, a text that is no
\* base64, and got the sentinel a wrong key gets.
C13_Witness ==
  \E A \in keyring, B \in keyring :
    /\ DecryptsEnvelope(A, B)
    /\ last.args = <<NotBase64, env[3], A[2], B[3]>>
    /\ last.result = Null
    /\ last.result = decrypt(env[2], env[3], A[2], ThreeBytes)
    /\ \E X \in keyring :
         /\ X[3] \notin {A[3], B[3]}
         /\ last.result = decrypt(env[2], env[3], A[2], X[3])

\* C14: for key pairs A, B and S = deriveSharedSecret(B.publicKey,
\* A.secretKey), an envelope from encrypt(M, B.publicKey, A.secretKey) is
\* opened to M by decryptWithSharedSecret(encrypted, nonce, S), and an envelope
\* from encryptWithSharedSecret(M, S) is opened to M by decrypt(encrypted,
\* nonce, A.publicKey, B.secretKey).
C14_Interchangeable ==
  /\ (last.op = "decryptWithSharedSecret" /\ IsEnvelope(env))
     => \A A \in keyring, B \in keyring, M \in Texts :
          (/\ last.args = <<env[2], env[3], deriveSharedSecret(B[2], A[3])>>
           /\ Encrypted(M, A, B))
          => last.result = M
  /\ (last.op = "decrypt" /\ IsEnvelope(env))
     => \A A \in keyring, B \in keyring, M \in Texts :
          (/\ last.args = <<env[2], env[3], A[2], B[3]>>
           /\ SealedWith(M, deriveSharedSecret(B[2], A[3])))
          => last.result = M
  /\ (last.op \in {"encrypt", "encryptWithSharedSecret"} /\ IsEnvelope(last.result))
     => \A A \in keyring, B \in keyring :
          (\/ last.args = <<last.args[1], B[2], A[3]>>
           \/ last.args = <<last.args[1], deriveSharedSecret(B[2], A[3])>>)
          => /\ Encrypted(last.args[1], A, B)
             /\ SealedWith(last.args[1], deriveSharedSecret(B[2], A[3]))

\* The secret A derived with B's public key has opened, to "e-acute", what
\* encrypt made for B with A's secret key.
C14_Witness ==
  \E A \in keyring, B \in keyring :
    /\ A # B
    /\ last.op = "decryptWithSharedSecret"
    /\ IsEnvelope(env)
    /\ env = encrypt(Str(<<233>>), B[2], A[3], decodeBase64(env[3]))
    /\ last.args = <<env[2], env[3], deriveSharedSecret(B[2], A[3])>>
    /\ last.result = Str(<<233>>)

\* What the module's function returns for the arguments and the draw of call c.
ResultOf(c) ==
  CASE c.op = "generateKeyPair" -> generateKeyPair(c.rnd)
    [] c.op = "encrypt" -> encrypt(c.args[1], c.args[2], c.args[3], c.rnd)
    [] c.op = "decrypt" -> decrypt(c.args[1], c.args[2], c.args[3], c.args[4])
    [] c.op = "deriveSharedSecret" -> deriveSharedSecret(c.args[1], c.args[2])
    [] c.op = "encryptWithSharedSecret" ->
         encryptWithSharedSecret(c.args[1], c.args[2], c.rnd)
    [] c.op = "decryptWithSharedSecret" ->
         decryptWithSharedSecret(c.args[1], c.args[2], c.args[3])
    [] c.op = "sign" -> sign(c.args[1], c.args[2])
    [] c.op = "verify" -> verify(c.args[1], c.args[2], c.args[3])
    [] OTHER -> Undefined

\* The call c under each value the random source can return to it.
Redrawn(c) ==
  CASE c.op = "generateKeyPair" -> {[c EXCEPT !.rnd = e] : e \in KeyDraws}
    [] c.op \in {"encrypt", "encryptWithSharedSecret"} ->
         {[c EXCEPT !.rnd = e] : e \in NonceDraws}
    [] OTHER -> {c}

SeedOf(secretKey) == Slice32(decodeBase64(secretKey))

\* C16: sign uses exactly the first 32 bytes of the decoded secret key as the
\* signing seed: for a key of at least 32 bytes it returns the signature made
\* with that seed; two secret keys whose first 32 decoded bytes agree give, for
\* the same message, signatures that verify under the same signing public key;
\* and the seed yields the same signing pair whatever follows it in the key.
C16_First32Bytes ==
  (/\ last.op = "sign"
   /\ ~IsThrow(decodeUTF8(last.args[1]))
   /\ ~IsThrow(decodeBase64(last.args[2]))
   /\ ByteLen(decodeBase64(last.args[2])) >= seedLength)
  => /\ ~IsThrow(last.result)
     /\ ByteLen(SeedOf(last.args[2])) = seedLength
     /\ decodeBase64(last.result) = Sig(decodeUTF8(last.args[1]), SeedOf(last.args[2]))
     /\ \A k2 \in SignKeyArgs :
          (~IsThrow(decodeBase64(k2)) /\ SeedOf(k2) = SeedOf(last.args[2]))
          => /\ nacl_sign_keyPair_fromSeed(SeedOf(k2))
                  = nacl_sign_keyPair_fromSeed(SeedOf(last.args[2]))
             /\ verify(last.args[1], last.result, SigningPublicKey(k2)) = True
             /\ verify(last.args[1], sign(last.args[1], k2),
                       SigningPublicKey(last.args[2])) = True
     /\ \A K \in keyring :
          last.args[2] \in LongKeys(K[3]) => SeedOf(last.args[2]) = decodeBase64(K[3])

\* sign has been given a generated secret key followed by two more bytes and
\* has returned the signature the key alone gives.
C16_Witness ==
  \E K \in keyring :
    /\ last.op = "sign"
    /\ last.args = <<Str(<<97>>), encodeBase64(Extended(decodeBase64(K[3]), <<2, 3>>))>>
    /\ last.result = sign(Str(<<97>>), K[3])
    /\ ~IsThrow(last.result)

\* C17: when the platform random source is unavailable generateKeyPair fails
\* with an error and no key pair is ever returned, and encrypt and
\* encryptWithSharedSecret return no envelope; every key pair returned holds
\* the secret key the random source produced in that call (and its public
\* key), and every envelope returned holds the nonce it produced in that call.
C17_EntropyFailureIsLoud ==
  /\ ~prng
     => /\ keyring = {}
        /\ env = Null
        /\ last.op = "generateKeyPair" => IsThrow(last.result)
        /\ last.op \in {"encrypt", "encryptWithSharedSecret"} => last.result = Null
  /\ (last.op = "generateKeyPair" /\ ~IsThrow(last.result))
     => /\ prng
        /\ last.rnd \in KeyDraws
        /\ decodeBase64(last.result[3]) = last.rnd
        /\ decodeBase64(last.result[2]) = scalarMultBase(last.rnd)
  /\ ReturnedEnvelope(last)
     => /\ prng
        /\ last.rnd \in NonceDraws
        /\ decodeBase64(last.result[3]) = last.rnd
  /\ \A K \in keyring : decodeBase64(K[3]) \in KeyDraws

\* Without a random source generateKeyPair has thrown.
C17_Witness ==
  /\ ~prng
  /\ last.op = "generateKeyPair"
  /\ last.result = Throw("Error: no PRNG")

\* C18: when the calls of several callers interleave in any order, each call
\* returns what the function returns for its arguments when run alone, and
\* the locals of a call in progress are those its own statements made from
\* its own arguments: no other call has altered them.
C18_NoCoordination ==
  \A t \in Callers :
    LET c == tasks[t].call
    IN /\ tasks[t].pc = "done" => tasks[t].result = ResultOf(c)
       /\ tasks[t].pc = "converted" => frames[t] = Locals(c)
       /\ tasks[t].pc = "computed"
          => frames[t] = Append(Locals(c), Primitive(c.op, Locals(c)))
       /\ tasks[t].pc \in {"idle", "called", "done"} => frames[t] = <<>>

\* While one caller's decrypt has opened its box and not yet returned, the
\* other caller's sign has converted its arguments.
C18_Witness ==
  /\ tasks["c1"].pc = "computed"
  /\ tasks["c1"].call.op = "decrypt"
  /\ frames["c1"][5] = Raw(<<97>>)
  /\ tasks["c2"].pc = "converted"
  /\ tasks["c2"].call.op = "sign"
  /\ ~IsThrow(FirstThrow(frames["c2"]))

\* What opening the box gives in the decrypt or decryptWithSharedSecret call
\* that has just returned: the plaintext bytes, null, or a thrown error (an
\* argument that does not decode, or has a wrong length).
Opened ==
  LET d == [i \in 1..Len(last.args) |-> decodeBase64(last.args[i])]
  IN IF IsThrow(FirstThrow(d)) THEN FirstThrow(d)
     ELSE IF last.op = "decrypt" THEN nacl_box_open(d[1], d[2], d[3], d[4])
     ELSE nacl_secretbox_open(d[1], d[2], d[3])

\* C19 (as amended): for the empty message "" encrypt returns an envelope and
\* decrypt and decryptWithSharedSecret return the empty text "", which is not
\* the sentinel null; null is returned only when an input is malformed, when
\* opening the box fails, or when the box opens to bytes that are no UTF-8.
C19_EmptyIsNotFailure ==
  /\ (last.op = "encrypt" /\ last.args[1] = Str(<<>>))
     => \A A \in keyring, B \in keyring :
          (last.args[2] = B[2] /\ last.args[3] = A[3]) => IsEnvelope(last.result)
  /\ (last.op = "decrypt" /\ IsEnvelope(env))
     => \A A \in keyring, B \in keyring :
          (/\ last.args = <<env[2], env[3], A[2], B[3]>>
           /\ Encrypted(Str(<<>>), A, B))
          => last.result = Str(<<>>) /\ last.result # Null
  /\ (last.op = "decryptWithSharedSecret" /\ IsEnvelope(env))
     => \A S \in DerivedSecrets :
          (/\ last.args = <<env[2], env[3], S>>
           /\ SealedWith(Str(<<>>), S))
          => last.result = Str(<<>>) /\ last.result # Null
  /\ (last.op \in {"decrypt", "decryptWithSharedSecret"} /\ last.result = Null)
     => \/ IsThrow(Opened)
        \/ Opened = Null
        \/ IsThrow(encodeUTF8(Opened))

\* C19 as stated: null is returned only when opening the box fails or an
\* input is malformed.
C19_Original ==
  (last.op \in {"decrypt", "decryptWithSharedSecret"} /\ last.result = Null)
  => IsThrow(Opened) \/ Opened = Null

\* B has decrypted the empty message A sent and got the empty text.
C19_Witness ==
  \E A \in keyring, B \in keyring :
    /\ A # B
    /\ last.op = "decrypt"
    /\ Encrypted(Str(<<>>), A, B)
    /\ last.args = <<env[2], env[3], A[2], B[3]>>
    /\ Opened = Raw(<<>>)
    /\ last.result = Str(<<>>)

TooManyAttempts == Result(FALSE, Error("Too many failed attempts. Please request a new code."))

\* C20 (as amended): for a code stored by sendVerificationCode, after 3
\* verifyCode calls with a wrong code for that phone number no later verifyCode
\* call for that stored code returns verified:true, even with the correct
\* code, and after it no entry is pending; the next call, if it comes before
\* the code expires, deletes the pending entry and reports too many attempts;
\* after the expiry it is the expiry, or that nothing is pending, that is
\* reported.
C20_AttemptLimit ==
  (reply.op = "verifyCode" /\ reply.prior >= maxAttempts)
  => /\ reply.result[2] = FALSE
     /\ pendingVerifications[reply.phone] = Undefined
     /\ reply.prior = maxAttempts
        => IF reply.at <= issued[reply.phone][3]
           THEN reply.result = TooManyAttempts
           ELSE reply.result \in
                  {Result(FALSE, Error("Verification code has expired")),
                   Result(FALSE, Error("No pending verification for this phone number"))}

\* C20 as stated: the call after 3 calls with a wrong code reports too many
\* attempts.
C20_Original ==
  (reply.op = "verifyCode" /\ reply.prior = maxAttempts)
  => /\ reply.result = TooManyAttempts
     /\ pendingVerifications[reply.phone] = Undefined

\* After three wrong codes the stored code itself has been refused, its entry
\* deleted.
C20_Witness ==
  /\ reply.op = "verifyCode"
  /\ reply.prior = maxAttempts
  /\ reply.code = issued[reply.phone][2]
  /\ reply.result = TooManyAttempts
  /\ pendingVerifications[reply.phone] = Undefined

NoPending == Result(FALSE, Error("No pending verification for this phone number"))

\* C21: a stored code is accepted at most once.  issued[p] is an entry exactly
\* when a sendVerificationCode call has stored a code for p and no verifyCode
\* call has returned verified:true since; so a verifyCode call that returns
\* verified:true does so for a stored code not yet accepted, and leaves no
\* pending entry; and until the next send every verifyCode call for p, in
\* whatever order the bodies of the calls in flight run, reports that no
\* verification is pending.
C21_SingleUse ==
  [][(reply' # reply /\ reply'.op = "verifyCode")
     => /\ reply'.result[2]
           => /\ issued[reply'.phone][1] = "entry"
              /\ issued'[reply'.phone] = Used(reply'.code)
              /\ pendingVerifications'[reply'.phone] = Undefined
        /\ issued[reply'.phone][1] # "entry"
           => /\ reply'.result = NoPending
              /\ pendingVerifications'[reply'.phone] = Undefined]_vars

\* The code that was just accepted is presented again and nothing is pending.
C21_Witness ==
  /\ reply.op = "verifyCode"
  /\ issued[reply.phone] = Used(reply.code)
  /\ reply.result = NoPending
  /\ pendingVerifications[reply.phone] = Undefined

ExpiredCode == Result(FALSE, Error("Verification code has expired"))

\* C22: a verifyCode call whose body runs later than 5 minutes after the moment
\* sendVerificationCode stored the code (issued[p][5], the clock at the store)
\* never returns verified:true; if the entry is still pending, the call
\* deletes it and returns verified:false with the expiry error.
C22_Expiry ==
  [][(/\ reply' # reply
      /\ reply'.op = "verifyCode"
      /\ issued[reply'.phone][1] = "entry"
      /\ now > issued[reply'.phone][5] + expiryMs)
     => /\ reply'.result[2] = FALSE
        /\ pendingVerifications'[reply'.phone] = Undefined
        /\ pendingVerifications[reply'.phone] # Undefined
           => reply'.result = ExpiredCode]_vars

\* The stored code itself, presented 7.5 minutes after it was stored, has been
\* refused as expired and its entry deleted.
C22_Witness ==
  /\ reply.op = "verifyCode"
  /\ reply.before # Undefined
  /\ reply.code = reply.before[2]
  /\ issued[reply.phone][1] = "entry"
  /\ reply.at > issued[reply.phone][5] + expiryMs
  /\ reply.result = ExpiredCode
  /\ pendingVerifications[reply.phone] = Undefined

\* A sendVerificationCode call has just resolved.
Sent == reply' # reply /\ reply'.op = "sendVerificationCode"

\* C23 (as amended): sendVerificationCode with a valid E.164 number returns
\* success:true and leaves for that number the one entry made of the code just
\* drawn, the expiry 5 minutes ahead and attempts = 0, whatever entry was there
\* before, and leaves the other numbers' entries alone; right after it
\* verifyCode accepts a code exactly when it is the code just drawn, so an
\* earlier code is accepted only if the new draw gave the same digits; with an
\* invalid number it returns success:false and leaves the Map unchanged.
C23_SendReplaces ==
  [][\A p \in Phones :
       (Sent /\ reply'.phone = p)
       => IF ValidPhone(p)
          THEN /\ reply'.result = Result(TRUE, Null)
               /\ \E c \in CodeArgs :
                    pendingVerifications'[p] = Entry(c, now + expiryMs, 0)
               /\ \A q \in Phones \ {p} :
                    pendingVerifications'[q] = pendingVerifications[q]
               /\ \A c \in CodeArgs :
                    verifyCode(p, c)'.result[2] <=> c = pendingVerifications'[p][2]
          ELSE /\ reply'.result[2] = FALSE
               /\ pendingVerifications' = pendingVerifications]_vars

\* C23 as stated: after the send, the code of the entry that was pending before
\* it is no longer accepted.
C23_Original ==
  [][\A p \in Phones :
       (/\ Sent
        /\ reply'.phone = p
        /\ ValidPhone(p)
        /\ pendingVerifications[p] # Undefined)
       => \A c \in CodeArgs :
            c = pendingVerifications[p][2] => ~verifyCode(p, c)'.result[2]]_vars

\* A send has replaced an entry that had failed attempts and another code.
C23_Witness ==
  /\ reply.op = "sendVerificationCode"
  /\ reply.result = Result(TRUE, Null)
  /\ reply.before # Undefined
  /\ reply.before[4] > 0
  /\ reply.before[2] # pendingVerifications[reply.phone][2]
  /\ pendingVerifications[reply.phone][4] = 0

\* The list of facets as the functions read it from storage.
Stored == loadFacets
DuplicateName == Failed("A facet with this name already exists")
\* The facets of the list other than the i-th that have the name, ignoring case.
Namesakes(facets, i, name) ==
  {j \in 1..Len(facets) : j # i /\ NameKey(facets[j]) = toLowerCase(trim(name[2]))}

\* C24: no two stored facets have names that are equal ignoring case; a
\* createFacet with the name of a stored facet, and an updateFacet that gives a
\* facet the name of another stored facet, return the duplicate-name error and
\* leave the stored list as it is.
C24_UniqueNames ==
  /\ \A i \in 1..Len(Stored) : Namesakes(Stored, i, Stored[i][3]) = {}
  /\ \A name \in NameArgs, type \in TypeArgs :
       (createRejects(name, type) = Null /\ Namesakes(Stored, 0, name) # {})
       => createFacet(name, type, generateId(ids + 1)) = DuplicateName
  /\ \A i \in 1..Len(Stored), data \in DataArgs \ {Undefined} :
       (/\ Truthy(Stored[i][2])
        /\ findIndex(Stored, Stored[i][2]) = i
        /\ Truthy(data[3])
        /\ ~(Truthy(data[4]) /\ data[4] \notin FacetTypes)
        /\ Namesakes(Stored, i, data[3]) # {})
       => updateFacet(Stored[i][2], data) = DuplicateName

\* C25: every stored facet has a name that is a non-empty trimmed string, a
\* type among the four facet types and an id that generateId produced, and no
\* two stored facets have the same id.
C25_WellFormed ==
  \A i \in 1..Len(Stored) :
    /\ IsStr(Stored[i][3])
    /\ Stored[i][3][2] # <<>>
    /\ trim(Stored[i][3][2]) = Stored[i][3][2]
    /\ Stored[i][4] \in FacetTypes
    /\ Stored[i][2] \in {generateId(n) : n \in 1..ids}
    /\ \A j \in 1..Len(Stored) : j # i => Stored[j][2] # Stored[i][2]

\* C26: with each of the three storages, a facet that createFacet has returned
\* and no deleteFacet has removed is returned by getFacetById for its id and
\* is in the list getFacets returns.
C26_Persistent ==
  \A id \in made :
    /\ getFacetById(id).result[2] # Null
    /\ getFacetById(id).result[2][2] = id
    /\ \E i \in 1..Len(getFacets.result[2]) : getFacets.result[2][i][2] = id

\* C27: with a storage that keeps the item, once every overlapping call has
\* completed, the stored list holds every facet that a createFacet call
\* returned and no deleteFacet call removed, and no two stored names are equal
\* ignoring case.
C27_NoLostUpdate ==
  (storageEnv # "memory" /\ \A t \in Callers : jobs[t].pc = "idle")
  => /\ \A id \in made : \E i \in 1..Len(Stored) : Stored[i][2] = id
     /\ \A i \in 1..Len(Stored) : Namesakes(Stored, i, Stored[i][3]) = {}

====
